---- MODULE Spec2Model ----
\* Retry / back-off control flow of the AI Game Builder:
\*   ResilientChatGoogleGenerativeAI._generate / _agenerate   (agents.py)
\*   GameBuilderCrew.run                                       (crew.py)
\*   GeminiConfig helpers                                      (config.py)
\* Message texts are sequences of one-character strings, so that Python's
\* str.lower() and the substring test `x in s` are computed, not assumed.
EXTENDS Integers, Sequences, FiniteSets, TLC

\* ---------------------------------------------------------------------
\* Text helpers (Python str semantics)
\* ---------------------------------------------------------------------
UpperAlpha ==
    <<"A", "B", "C", "D", "E", "F", "G", "H", "I", "J", "K", "L", "M", "N", "O", "P", "Q", "R", "S", "T", "U", "V", "W", "X", "Y", "Z">>

LowerAlpha ==
    <<"a", "b", "c", "d", "e", "f", "g", "h", "i", "j", "k", "l", "m", "n", "o", "p", "q", "r", "s", "t", "u", "v", "w", "x", "y", "z">>

DigitChars ==
    <<"0", "1", "2", "3", "4", "5", "6", "7", "8", "9">>

\* str.lower() on one character
LowerChar(c) ==
    IF \E i \in 1..26 : UpperAlpha[i] = c
    THEN LowerAlpha[CHOOSE i \in 1..26 : UpperAlpha[i] = c]
    ELSE c

\* str.lower()
Lower(s) ==
    [i \in 1..Len(s) |-> LowerChar(s[i])]

\* Python `sub in s` for strings: sub occurs as a contiguous run of s
Contains(s, sub) ==
    \E i \in 0..(Len(s) - Len(sub)) :
        \A j \in 1..Len(sub) : s[i + j] = sub[j]

\* str(n) for a non-negative integer, as in an f-string
RECURSIVE IntToStr(_)
IntToStr(n) ==
    IF n < 10 THEN <<DigitChars[n + 1]>>
    ELSE IntToStr(n \div 10) \o <<DigitChars[(n % 10) + 1]>>

\* ---------------------------------------------------------------------
\* GeminiConfig (config.py)
\* ---------------------------------------------------------------------
REQUEST_DELAY == 3
MAX_QUOTA_RETRIES == 10
EXPONENTIAL_BACKOFF_BASE == 2
MAX_BACKOFF_TIME == 300

Ind429 ==
    <<"4", "2", "9">>

IndRateLimit ==
    <<"r", "a", "t", "e", " ", "l", "i", "m", "i", "t">>

IndQuotaExceeded ==
    <<"q", "u", "o", "t", "a", " ", "e", "x", "c", "e", "e", "d", "e", "d">>

IndResourceExhaustedU ==
    <<"r", "e", "s", "o", "u", "r", "c", "e", "_", "e", "x", "h", "a", "u", "s", "t", "e", "d">>

IndResourceExhausted ==
    <<"r", "e", "s", "o", "u", "r", "c", "e", "e", "x", "h", "a", "u", "s", "t", "e", "d">>

IndTooManyRequests ==
    <<"t", "o", "o", " ", "m", "a", "n", "y", " ", "r", "e", "q", "u", "e", "s", "t", "s">>

IndRateLimitExceededU ==
    <<"r", "a", "t", "e", "_", "l", "i", "m", "i", "t", "_", "e", "x", "c", "e", "e", "d", "e", "d">>

IndQuotaExceededU ==
    <<"q", "u", "o", "t", "a", "_", "e", "x", "c", "e", "e", "d", "e", "d">>

IndQuota ==
    <<"q", "u", "o", "t", "a">>

IndIterationLimit ==
    <<"i", "t", "e", "r", "a", "t", "i", "o", "n", " ", "l", "i", "m", "i", "t">>

IndTimeLimit ==
    <<"t", "i", "m", "e", " ", "l", "i", "m", "i", "t">>

\* quota_indicators of GeminiConfig.is_quota_error
quota_indicators ==
    {Ind429, IndRateLimit, IndQuotaExceeded, IndResourceExhaustedU,
     IndResourceExhausted, IndTooManyRequests, IndRateLimitExceededU,
     IndQuotaExceededU}

\* variant: the message is not lower-cased before the test
is_quota_error_CaseSensitive(msg) ==
    \E ind \in quota_indicators : Contains(msg, ind)

\* GeminiConfig.is_quota_error(error)
is_quota_error(msg) ==
    \E ind \in quota_indicators : Contains(Lower(msg), ind)

RECURSIVE Pow(_, _)
Pow(b, e) ==
    IF e = 0 THEN 1 ELSE b * Pow(b, e - 1)

Min(a, b) ==
    IF a <= b THEN a ELSE b

\* GeminiConfig.get_adaptive_delay(error_count) when cls.REQUEST_DELAY is rd
adaptive_delay_for(rd, n) ==
    IF n = 0 THEN rd
    ELSE Min(rd * Pow(EXPONENTIAL_BACKOFF_BASE, Min(n, 5)), MAX_BACKOFF_TIME)

\* GeminiConfig.get_adaptive_delay(error_count) with the default REQUEST_DELAY
get_adaptive_delay(error_count) ==
    adaptive_delay_for(REQUEST_DELAY, error_count)

\* ---------------------------------------------------------------------
\* Error messages the remote call / crew.kickoff may raise
\* ---------------------------------------------------------------------
Msg429RateLimit ==
    <<"4", "2", "9", " ", "r", "a", "t", "e", " ", "l", "i", "m", "i", "t">>

MsgQuotaExceeded ==
    <<"Q", "u", "o", "t", "a", " ", "e", "x", "c", "e", "e", "d", "e", "d">>

MsgInvalidApiKey ==
    <<"i", "n", "v", "a", "l", "i", "d", " ", "a", "p", "i", " ", "k", "e", "y">>

MsgIterationLimit ==
    <<"i", "t", "e", "r", "a", "t", "i", "o", "n", " ", "l", "i", "m", "i", "t">>

ExhaustPrefix ==
    <<"R", "a", "t", "e", " ", "l", "i", "m", "i", "t", " ", "e", "x", "c", "e", "e", "d", "e", "d", " ", "a", "f", "t", "e", "r", " ">>

ExhaustSuffix ==
    <<" ", "a", "t", "t", "e", "m", "p", "t", "s", ".", " ", "P", "l", "e", "a", "s", "e", " ", "w", "a", "i", "t", " ", "a", "n", "d", " ", "t", "r", "y", " ", "a", "g", "a", "i", "n", ".">>

MsgAllFailed ==
    <<"L", "L", "M", ":", " ", "A", "l", "l", " ", "r", "a", "t", "e", " ", "l", "i", "m", "i", "t", " ", "r", "e", "t", "r", "y", " ", "a", "t", "t", "e", "m", "p", "t", "s", " ", "f", "a", "i", "l", "e", "d">>

MsgAsyncAllFailed ==
    <<"A", "s", "y", "n", "c", " ", "L", "L", "M", ":", " ", "A", "l", "l", " ", "r", "a", "t", "e", " ", "l", "i", "m", "i", "t", " ", "r", "e", "t", "r", "y", " ", "a", "t", "t", "e", "m", "p", "t", "s", " ", "f", "a", "i", "l", "e", "d">>

\* Rate limit exceeded after {max_attempts} attempts. Please wait and try again.
ExhaustMsg(max_attempts) ==
    ExhaustPrefix \o IntToStr(max_attempts) \o ExhaustSuffix

\* Errors raised by super()._generate / super()._agenerate: rate-limit /
\* quota errors of the remote API, and errors of any other kind
LLMRateLimitErrors ==
    {Msg429RateLimit, MsgQuotaExceeded}

LLMOtherErrors ==
    {MsgInvalidApiKey}

LLMErrors ==
    LLMRateLimitErrors \cup LLMOtherErrors

\* Values returned by super()._generate / super()._agenerate
LLMResults ==
    {"r1", "r2"}

\* Errors raised by crew.kickoff(): rate-limit errors (those of the remote
\* API, the agent framework's iteration limit, and the LLM wrapper's own
\* exhaustion error), and errors of any other kind
KickoffRateLimitErrors ==
    {Msg429RateLimit, MsgIterationLimit, ExhaustMsg(MAX_QUOTA_RETRIES)}

KickoffOtherErrors ==
    {MsgInvalidApiKey}

KickoffErrors ==
    KickoffRateLimitErrors \cup KickoffOtherErrors

\* Number of run() calls made on the one GameBuilderCrew instance
MaxRuns == 2

\* ---------------------------------------------------------------------
\* State
\* ---------------------------------------------------------------------
VARIABLES
    gpc,                \* position in _generate/_agenerate
    gMode,              \* "sync" (_generate) or "async" (_agenerate)
    attempt,            \* loop variable of the for loop
    gErr,               \* the exception bound to `e` in the handler
    gLog,               \* invocations and sleeps of this call, in order
    gOutcome,           \* "none", "return" or "raise"
    gResult,            \* returned value
    gRaised,            \* exception that left the call
    gLastRaised,        \* exception most recently raised by the remote call
    rpc,                \* position in GameBuilderCrew.run
    quota_retry_count,  \* local of run()
    consecutive_errors, \* GameBuilderCrew.consecutive_errors
    rErr,               \* the exception bound to `e` in run()'s handler
    rLog,               \* kickoffs and sleeps of this run() call, in order
    rOutcome,           \* "none", "return", "error_response" or "raise"
    rResult,            \* returned value
    rRaised,            \* exception that left run()
    rLastRaised,        \* exception most recently raised by crew.kickoff()
    rStartErrors,       \* consecutive_errors when this run() call began
    runs                \* run() calls started so far

\* State of GeminiConfig.get_adaptive_delay, called on its own
VARIABLES
    dpc,                \* "idle" or "returned"
    request_delay,      \* GeminiConfig.REQUEST_DELAY as configured
    error_count,        \* the argument
    delay_out           \* the value returned

dvars == <<dpc, request_delay, error_count, delay_out>>

\* State of GeminiConfig.handle_quota_exceeded
VARIABLES
    hpc,                \* "idle", "waiting" (in _show_wait_progress), "returned"
    retry_count,        \* the argument
    wait_time,          \* local wait_time, a rational <<numerator, denominator>>
    remaining,          \* seconds still to sleep in _show_wait_progress
    hSlept,             \* seconds slept by this call
    hResult,            \* "none", "True" or "False"
    hPrev               \* <<retry_count, wait_time>> of the last call that waited

hvars == <<hpc, retry_count, wait_time, remaining, hSlept, hResult, hPrev>>

\* State of the three classification sites applied to one message
VARIABLES
    kpc,                \* "idle" or "classified"
    errMsg,             \* str(e), the message classified
    kPhrase,            \* the phrase errMsg was built around
    kConfig,            \* result of GeminiConfig.is_quota_error
    kLLM,               \* result of the test in _generate/_agenerate
    kCrew               \* result of the test in GameBuilderCrew.run

kvars == <<kpc, errMsg, kPhrase, kConfig, kLLM, kCrew>>

\* State of an asyncio event loop running a task that calls the LLM wrapper
\* and a second, unrelated task that makes a remote call of its own
VARIABLES
    apc,                \* wrapper task: "idle", "awaiting" (remote call in
                        \* flight), "backoff", "delay" (sleeping), "done"
    aMode,              \* "async": the task awaits _agenerate;
                        \* "sync": the task calls _generate
    aAttempt,           \* loop variable `attempt` of the wrapper
    aOutcome,           \* "none", "return" or "raise"
    loopHolder,         \* the task occupying the loop's thread, or "none"
    bpc,                \* other task: "idle", "awaiting", "done"
    bStartAt            \* <<apc, aAttempt>> when the other task started

lvars == <<apc, aMode, aAttempt, aOutcome, loopHolder, bpc, bStartAt>>

\* two threads calling run() on one GameBuilderCrew instance
VARIABLES
    tpc,          \* per thread: "idle", "kickoff", "load", "store"
    tQuota,       \* per thread: the local quota_retry_count of its call
    tLoaded,      \* per thread: the value loaded by `self.consecutive_errors += 1`
    tCalls,       \* per thread: calls of run() made so far
    tFails,       \* per thread: kickoffs that have raised so far
    increments    \* completed `+= 1` statements since the last `= 0`

tvars == <<tpc, tQuota, tLoaded, tCalls, tFails, increments>>

\* the command line of main.py
VARIABLES
    cpc,              \* "idle", "confirm", "api", "loop", "done"
    centry,           \* "none", "main" (python main.py ...), "train" (train() called directly)
    sys_argv,         \* sys.argv; sys.argv[i] is sys_argv[i + 1]
    n_iterations,     \* local of train()
    filename,         \* local of train()
    iteration,        \* iterations of the training loop finished
    successful_runs,  \* local of train()
    cOut,             \* what the program reported
    savedTo           \* the file opened for writing, <<>> if none

cvars == <<cpc, centry, sys_argv, n_iterations, filename, iteration,
           successful_runs, cOut, savedTo>>

\* run() on top of the LLM wrapper
VARIABLES
    remoteCalls   \* remote invocations made by the kickoffs of the call that have ended

svars == <<remoteCalls>>

\* everything outside _generate/_agenerate and run()
ovars == <<dvars, hvars, kvars, lvars, tvars, cvars, svars>>

notAdaptive == <<hvars, kvars, lvars, tvars, cvars, svars>>
notQuota == <<dvars, kvars, lvars, tvars, cvars, svars>>
notClassify == <<dvars, hvars, lvars, tvars, cvars, svars>>
notLoop == <<dvars, hvars, kvars, tvars, cvars, svars>>
notThreads == <<dvars, hvars, kvars, lvars, cvars, svars>>
notCli == <<dvars, hvars, kvars, lvars, tvars, svars>>
notStack == <<dvars, hvars, kvars, lvars, tvars, cvars>>

gvars == <<gpc, gMode, attempt, gErr, gLog, gOutcome, gResult, gRaised,
           gLastRaised>>
rvars == <<rpc, quota_retry_count, consecutive_errors, rErr, rLog, rOutcome,
           rResult, rRaised, rLastRaised, rStartErrors, runs>>
\* rvars without the instance attribute consecutive_errors
rlocals == <<rpc, quota_retry_count, rErr, rLog, rOutcome,
             rResult, rRaised, rLastRaised, rStartErrors, runs>>
vars == <<gpc, gMode, attempt, gErr, gLog, gOutcome, gResult, gRaised,
          gLastRaised, rpc, quota_retry_count, consecutive_errors, rErr, rLog,
          rOutcome, rResult, rRaised, rLastRaised, rStartErrors, runs, ovars>>

\* An exception: its message and the message of its __context__ (the
\* exception being handled when it was raised; empty when there is none)
ExcOf(cls, m, ctx) ==
    [cls |-> cls, msg |-> m, context |-> ctx]

\* the errors of the remote call and of the wrappers are plain Exception
Exc(m, ctx) ==
    ExcOf("Exception", m, ctx)

\* KeyboardInterrupt() has no arguments: str() of it is empty
KeyboardInterruptExc(ctx) ==
    ExcOf("KeyboardInterrupt", <<>>, ctx)

\* variant: the handlers are bare `except:` clauses
ExceptExceptionCatches_Bare(cls) ==
    TRUE

\* `except Exception as e` (agents.py 37, crew.py 71): KeyboardInterrupt
\* derives from BaseException, not from Exception
ExceptExceptionCatches(cls) ==
    cls = "Exception"

NoExc ==
    Exc(<<>>, <<>>)

\* Log entries
Invoke(k, v) ==
    [ev |-> "invoke", kind |-> k, secs |-> 0, val |-> v]

Sleep(k, s) ==
    [ev |-> "sleep", kind |-> k, secs |-> s, val |-> "-"]

\* Log entries of run(); a kickoff result is a text
Kickoff(k, v) ==
    [ev |-> "invoke", kind |-> k, secs |-> 0, val |-> v]

RunSleep(k, s) ==
    [ev |-> "sleep", kind |-> k, secs |-> s, val |-> <<>>]

\* ---------------------------------------------------------------------
\* ResilientChatGoogleGenerativeAI._generate / _agenerate (agents.py)
\* ---------------------------------------------------------------------

\* variant: "api" added to the indicators
IsRateLimitLLM_Broad(msg) ==
    \/ is_quota_error(msg)
    \/ Contains(Lower(msg), IndRateLimit)
    \/ Contains(Lower(msg), IndQuota)
    \/ Contains(Lower(msg), IndTooManyRequests)
    \/ Contains(Lower(msg), Ind429)
    \/ Contains(Lower(msg), IndResourceExhaustedU)
    \/ Contains(Lower(msg), <<"a", "p", "i">>)

\* variant: only the "429" indicator is tested
IsRateLimitLLM_Only429(msg) ==
    Contains(Lower(msg), Ind429)

\* the rate-limit test of the except block (agents.py 41-46 / 84-89)
IsRateLimitLLM(msg) ==
    \/ is_quota_error(msg)
    \/ Contains(Lower(msg), IndRateLimit)
    \/ Contains(Lower(msg), IndQuota)
    \/ Contains(Lower(msg), IndTooManyRequests)
    \/ Contains(Lower(msg), Ind429)
    \/ Contains(Lower(msg), IndResourceExhaustedU)

\* variant: off by one, `attempt < max_attempts`
NotLastAttempt_OffByOne(a, max_attempts) ==
    a < max_attempts

\* `attempt < max_attempts - 1` (agents.py 50 / 93)
NotLastAttempt(a, max_attempts) ==
    a < max_attempts - 1

\* variant: the 1-based attempt number is used
LLMWaitTime_OneBased(a) ==
    60 + ((a + 1) * 30)

\* `wait_time = 60 + (attempt * 30)` (agents.py 52 / 95)
LLMWaitTime(a) ==
    60 + (a * 30)

\* the message of the exception raised after the loop (agents.py 65 / 108)
AllFailedMsg(mode) ==
    IF mode = "sync" THEN MsgAllFailed ELSE MsgAsyncAllFailed

\* a caller enters _generate (mode "sync") or _agenerate (mode "async")
GenCall(mode) ==
    /\ gpc = "idle"
    /\ rpc = "idle"
    /\ gpc' = "loop"
    /\ gMode' = mode
    /\ attempt' = 0
    /\ gErr' = NoExc
    /\ gLog' = <<>>
    /\ gOutcome' = "none"
    /\ gResult' = "-"
    /\ gRaised' = NoExc
    /\ gLastRaised' = NoExc
    /\ UNCHANGED <<rvars, ovars>>

\* variant: _agenerate has no request delay before a retry
PreRetryDelay_SyncOnly(mode) ==
    IF mode = "sync" THEN REQUEST_DELAY ELSE 0

\* seconds slept before a retry: GeminiConfig.add_request_delay() in
\* _generate (agents.py 33, config.py 64),
\* asyncio.sleep(GeminiConfig.REQUEST_DELAY) in _agenerate (agents.py 76)
PreRetryDelay(mode) ==
    REQUEST_DELAY

\* variant: the request delay is slept before every attempt, the first too
GenLoop_DelayAlways ==
    /\ gpc = "loop"
    /\ IF attempt < MAX_QUOTA_RETRIES
       THEN /\ gLog' = Append(gLog, Sleep("request", PreRetryDelay(gMode)))
            /\ gpc' = "invoke"
            /\ UNCHANGED <<gOutcome, gRaised>>
       ELSE /\ gOutcome' = "raise"
            /\ gRaised' = Exc(AllFailedMsg(gMode), <<>>)
            /\ gpc' = "done"
            /\ UNCHANGED gLog
    /\ UNCHANGED <<gMode, attempt, gErr, gResult, gLastRaised>>
    /\ UNCHANGED <<rvars, ovars>>

\* head of `for attempt in range(max_attempts)` and the pre-retry delay
GenLoop ==
    /\ gpc = "loop"
    /\ IF attempt < MAX_QUOTA_RETRIES
       THEN /\ gLog' = IF attempt > 0
                       THEN Append(gLog, Sleep("request", PreRetryDelay(gMode)))
                       ELSE gLog
            /\ gpc' = "invoke"
            /\ UNCHANGED <<gOutcome, gRaised>>
       ELSE /\ gOutcome' = "raise"
            /\ gRaised' = Exc(AllFailedMsg(gMode), <<>>)
            /\ gpc' = "done"
            /\ UNCHANGED gLog
    /\ UNCHANGED <<gMode, attempt, gErr, gResult, gLastRaised>>
    /\ UNCHANGED <<rvars, ovars>>

\* variant: the request delay is also slept after a successful invocation
GenInvokeOk_DelayAfter(v) ==
    /\ gpc = "invoke"
    /\ gLog' = gLog \o <<Invoke("ok", v), Sleep("request", REQUEST_DELAY)>>
    /\ gOutcome' = "return"
    /\ gResult' = v
    /\ gpc' = "done"
    /\ UNCHANGED <<gMode, attempt, gErr, gRaised, gLastRaised>>
    /\ UNCHANGED <<rvars, ovars>>

\* super()._generate(...) returns v, which the wrapper returns
GenInvokeOk(v) ==
    /\ gpc = "invoke"
    /\ gLog' = Append(gLog, Invoke("ok", v))
    /\ gOutcome' = "return"
    /\ gResult' = v
    /\ gpc' = "done"
    /\ UNCHANGED <<gMode, attempt, gErr, gRaised, gLastRaised>>
    /\ UNCHANGED <<rvars, ovars>>

\* super()._generate(...) raises an exception with message m
GenInvokeFail(m) ==
    /\ gpc = "invoke"
    /\ gLog' = Append(gLog, Invoke(IF m \in LLMRateLimitErrors THEN "rl" ELSE "other", "-"))
    /\ gErr' = Exc(m, <<>>)
    /\ gLastRaised' = Exc(m, <<>>)
    /\ gpc' = "except"
    /\ UNCHANGED <<gMode, attempt, gOutcome, gResult, gRaised>>
    /\ UNCHANGED <<rvars, ovars>>

\* variant: the wrapper counts its retries in the crew's consecutive_errors
GenRetry_CountsCrewError ==
    /\ gpc = "except"
    /\ IsRateLimitLLM(gErr.msg)
    /\ NotLastAttempt(attempt, MAX_QUOTA_RETRIES)
    /\ gLog' = Append(gLog, Sleep("backoff", LLMWaitTime(attempt)))
    /\ attempt' = attempt + 1
    /\ gErr' = NoExc
    /\ gpc' = "loop"
    /\ consecutive_errors' = consecutive_errors + 1
    /\ UNCHANGED <<gMode, gOutcome, gResult, gRaised, gLastRaised>>
    /\ UNCHANGED <<rlocals, ovars>>

\* rate-limit error, not the last attempt: sleep and continue
GenRetry ==
    /\ gpc = "except"
    /\ IsRateLimitLLM(gErr.msg)
    /\ NotLastAttempt(attempt, MAX_QUOTA_RETRIES)
    /\ gLog' = Append(gLog, Sleep("backoff", LLMWaitTime(attempt)))
    /\ attempt' = attempt + 1
    /\ gErr' = NoExc
    /\ gpc' = "loop"
    /\ UNCHANGED <<gMode, gOutcome, gResult, gRaised, gLastRaised>>
    /\ UNCHANGED <<rvars, ovars>>

\* variant: the exhaustion exception is raised outside the handler, so it
\* has no __context__
GenExhaust_NoContext ==
    /\ gpc = "except"
    /\ IsRateLimitLLM(gErr.msg)
    /\ ~NotLastAttempt(attempt, MAX_QUOTA_RETRIES)
    /\ gOutcome' = "raise"
    /\ gRaised' = Exc(ExhaustMsg(MAX_QUOTA_RETRIES), <<>>)
    /\ gErr' = NoExc
    /\ gpc' = "done"
    /\ UNCHANGED <<gMode, attempt, gLog, gResult, gLastRaised>>
    /\ UNCHANGED <<rvars, ovars>>

\* rate-limit error on the last attempt: raise the exhaustion exception
GenExhaust ==
    /\ gpc = "except"
    /\ IsRateLimitLLM(gErr.msg)
    /\ ~NotLastAttempt(attempt, MAX_QUOTA_RETRIES)
    /\ gOutcome' = "raise"
    /\ gRaised' = Exc(ExhaustMsg(MAX_QUOTA_RETRIES), gErr.msg)
    /\ gErr' = NoExc
    /\ gpc' = "done"
    /\ UNCHANGED <<gMode, attempt, gLog, gResult, gLastRaised>>
    /\ UNCHANGED <<rvars, ovars>>

\* any other error: `raise e`
GenReraise ==
    /\ gpc = "except"
    /\ ~IsRateLimitLLM(gErr.msg)
    /\ gOutcome' = "raise"
    /\ gRaised' = gErr
    /\ gErr' = NoExc
    /\ gpc' = "done"
    /\ UNCHANGED <<gMode, attempt, gLog, gResult, gLastRaised>>
    /\ UNCHANGED <<rvars, ovars>>

\* the call has left the wrapper; its locals are gone
GenReturn ==
    /\ gpc = "done"
    /\ gpc' = "idle"
    /\ gMode' = "sync"
    /\ attempt' = 0
    /\ gErr' = NoExc
    /\ gLog' = <<>>
    /\ gOutcome' = "none"
    /\ gResult' = "-"
    /\ gRaised' = NoExc
    /\ gLastRaised' = NoExc
    /\ UNCHANGED <<rvars, ovars>>

\* ---------------------------------------------------------------------
\* GameBuilderCrew (crew.py)
\* ---------------------------------------------------------------------
TypeRateLimitExceeded ==
    <<"r", "a", "t", "e", "_", "l", "i", "m", "i", "t", "_", "e", "x", "c", "e", "e", "d", "e", "d">>

TypeQuotaExceeded ==
    <<"q", "u", "o", "t", "a", "_", "e", "x", "c", "e", "e", "d", "e", "d">>

TypeMaxRetriesExceeded ==
    <<"m", "a", "x", "_", "r", "e", "t", "r", "i", "e", "s", "_", "e", "x", "c", "e", "e", "d", "e", "d">>

RespRateLimitExceeded ==
    <<"#", " ", "G", "a", "m", "e", " ", "C", "r", "e", "a", "t", "i", "o", "n", " ", "F", "a", "i", "l", "e", "d", " ", "-", " ", "R", "a", "t", "e", " ", "L", "i", "m", "i", "t", " ", "E", "x", "c", "e", "e", "d", "e", "d">>

RespQuotaExceeded ==
    <<"#", " ", "G", "a", "m", "e", " ", "C", "r", "e", "a", "t", "i", "o", "n", " ", "F", "a", "i", "l", "e", "d", " ", "-", " ", "Q", "u", "o", "t", "a", " ", "E", "x", "c", "e", "e", "d", "e", "d">>

RespMaxRetriesExceeded ==
    <<"#", " ", "G", "a", "m", "e", " ", "C", "r", "e", "a", "t", "i", "o", "n", " ", "F", "a", "i", "l", "e", "d", " ", "-", " ", "M", "a", "x", "i", "m", "u", "m", " ", "R", "e", "t", "r", "i", "e", "s", " ", "E", "x", "c", "e", "e", "d", "e", "d">>

RespOtherPrefix ==
    <<"G", "a", "m", "e", " ", "c", "r", "e", "a", "t", "i", "o", "n", " ", "f", "a", "i", "l", "e", "d", " ", "d", "u", "e", " ", "t", "o", ":", " ">>

ResultGame1 ==
    <<"i", "m", "p", "o", "r", "t", " ", "p", "y", "g", "a", "m", "e">>

ResultGame2 ==
    <<"p", "r", "i", "n", "t", "(", "'", "g", "a", "m", "e", "'", ")">>

\* variant: the error type matches none of the branches
create_error_response_Fallback(error_type) ==
    RespOtherPrefix \o error_type

\* GameBuilderCrew._create_error_response(error_type); each response text
\* is represented by its heading line
create_error_response(error_type) ==
    IF error_type = TypeRateLimitExceeded THEN RespRateLimitExceeded
    ELSE IF error_type = TypeQuotaExceeded THEN RespQuotaExceeded
    ELSE IF error_type = TypeMaxRetriesExceeded THEN RespMaxRetriesExceeded
    ELSE RespOtherPrefix \o error_type

\* Values returned by crew.kickoff()
KickoffResults ==
    {ResultGame1, ResultGame2}

\* variant: run() does not look for the words 'rate limit'
IsRateLimitCrew_NoRateLimitPhrase(msg) ==
    \/ Contains(Lower(msg), IndQuota)
    \/ Contains(Lower(msg), IndTooManyRequests)
    \/ Contains(Lower(msg), Ind429)
    \/ Contains(Lower(msg), IndResourceExhaustedU)
    \/ Contains(Lower(msg), IndIterationLimit)
    \/ Contains(Lower(msg), IndTimeLimit)

\* is_rate_limit_error of run()'s except block (crew.py 75-84)
IsRateLimitCrew(msg) ==
    \/ is_quota_error(msg)
    \/ Contains(Lower(msg), IndRateLimit)
    \/ Contains(Lower(msg), IndQuota)
    \/ Contains(Lower(msg), IndTooManyRequests)
    \/ Contains(Lower(msg), Ind429)
    \/ Contains(Lower(msg), IndResourceExhaustedU)
    \/ Contains(Lower(msg), IndIterationLimit)
    \/ Contains(Lower(msg), IndTimeLimit)

\* variant: off by one, `quota_retry_count < MAX_QUOTA_RETRIES`
CrewNotLastRetry_OffByOne(q) ==
    q < MAX_QUOTA_RETRIES

\* `quota_retry_count < GeminiConfig.MAX_QUOTA_RETRIES - 1` (crew.py 90)
CrewNotLastRetry(q) ==
    q < MAX_QUOTA_RETRIES - 1

\* variant: the first wait is already one step above the base
CrewWaitTime_StepFromOne(q) ==
    60 + ((q + 1) * 30)

\* `wait_time = 60 + (quota_retry_count * 30)` (crew.py 91)
CrewWaitTime(q) ==
    60 + (q * 30)

\* variant: off by one, `self.consecutive_errors <= 3`
OtherRetryAllowed_OffByOne(c) ==
    c <= 3

\* `self.consecutive_errors < 3` (crew.py 105)
OtherRetryAllowed(c) ==
    c < 3

\* variant: the wait is computed from the count before its increment
OtherWaitTime_BeforeIncrement(c) ==
    10 * Pow(2, c - 1)

\* `wait_time = 10 * (2 ** self.consecutive_errors)` (crew.py 107)
OtherWaitTime(c) ==
    10 * Pow(2, c)

\* a caller enters run() on the crew instance
RunCall ==
    /\ rpc = "idle"
    /\ gpc = "idle"
    /\ runs < MaxRuns
    /\ runs' = runs + 1
    /\ rpc' = "loop"
    /\ quota_retry_count' = 0
    /\ rStartErrors' = consecutive_errors
    /\ rErr' = NoExc
    /\ rLog' = <<>>
    /\ rOutcome' = "none"
    /\ rResult' = <<>>
    /\ rRaised' = NoExc
    /\ rLastRaised' = NoExc
    /\ UNCHANGED consecutive_errors
    /\ UNCHANGED <<gvars, ovars>>

\* variant: the delay is slept only before the first kickoff of the call
RunLoop_DelayOnce ==
    /\ rpc = "loop"
    /\ IF quota_retry_count < MAX_QUOTA_RETRIES
       THEN /\ rLog' = IF rLog # <<>>
                       THEN rLog
                       ELSE IF get_adaptive_delay(consecutive_errors) > REQUEST_DELAY
                       THEN Append(rLog, RunSleep("adaptive",
                                       get_adaptive_delay(consecutive_errors)))
                       ELSE Append(rLog, RunSleep("request", REQUEST_DELAY))
            /\ rpc' = "kickoff"
            /\ UNCHANGED <<rOutcome, rResult>>
       ELSE /\ rOutcome' = "error_response"
            /\ rResult' = create_error_response(TypeMaxRetriesExceeded)
            /\ rpc' = "done"
            /\ UNCHANGED rLog
    /\ UNCHANGED <<quota_retry_count, consecutive_errors, rErr, rRaised,
                   rLastRaised, rStartErrors, runs>>
    /\ UNCHANGED <<gvars, ovars>>

\* head of the while loop and the delay at the top of the try block
RunLoop ==
    /\ rpc = "loop"
    /\ IF quota_retry_count < MAX_QUOTA_RETRIES
       THEN /\ rLog' = IF get_adaptive_delay(consecutive_errors) > REQUEST_DELAY
                       THEN Append(rLog, RunSleep("adaptive",
                                       get_adaptive_delay(consecutive_errors)))
                       ELSE Append(rLog, RunSleep("request", REQUEST_DELAY))
            /\ rpc' = "kickoff"
            /\ UNCHANGED <<rOutcome, rResult>>
       ELSE /\ rOutcome' = "error_response"
            /\ rResult' = create_error_response(TypeMaxRetriesExceeded)
            /\ rpc' = "done"
            /\ UNCHANGED rLog
    /\ UNCHANGED <<quota_retry_count, consecutive_errors, rErr, rRaised,
                   rLastRaised, rStartErrors, runs>>
    /\ UNCHANGED <<gvars, ovars>>

\* variant: the error count is not reset on success
RunKickoffOk_NoReset(v) ==
    /\ rpc = "kickoff"
    /\ rLog' = Append(rLog, Kickoff("ok", v))
    /\ rOutcome' = "return"
    /\ rResult' = v
    /\ rpc' = "done"
    /\ UNCHANGED <<quota_retry_count, consecutive_errors, rErr, rRaised,
                   rLastRaised, rStartErrors, runs>>
    /\ UNCHANGED <<gvars, ovars>>

\* crew.kickoff() returns v: reset the error count and return v
RunKickoffOk(v) ==
    /\ rpc = "kickoff"
    /\ rLog' = Append(rLog, Kickoff("ok", v))
    /\ consecutive_errors' = 0
    /\ rOutcome' = "return"
    /\ rResult' = v
    /\ rpc' = "done"
    /\ UNCHANGED <<quota_retry_count, rErr, rRaised, rLastRaised, rStartErrors,
                   runs>>
    /\ UNCHANGED <<gvars, ovars>>

\* crew.kickoff() raises an exception with message m
RunKickoffFail(m) ==
    /\ rpc = "kickoff"
    /\ rLog' = Append(rLog, Kickoff(IF m \in KickoffRateLimitErrors
                                     THEN "rl" ELSE "other", <<>>))
    /\ rErr' = Exc(m, <<>>)
    /\ rLastRaised' = Exc(m, <<>>)
    /\ rpc' = "except"
    /\ UNCHANGED <<quota_retry_count, consecutive_errors, rOutcome, rResult,
                   rRaised, rStartErrors, runs>>
    /\ UNCHANGED <<gvars, ovars>>

\* variant: a rate-limit retry does not count as a consecutive error
RunRateLimitRetry_NoCount ==
    /\ rpc = "except"
    /\ IsRateLimitCrew(rErr.msg)
    /\ CrewNotLastRetry(quota_retry_count)
    /\ rLog' = Append(rLog, RunSleep("backoff", CrewWaitTime(quota_retry_count)))
    /\ quota_retry_count' = quota_retry_count + 1
    /\ rErr' = NoExc
    /\ rpc' = "loop"
    /\ UNCHANGED <<consecutive_errors, rOutcome, rResult, rRaised, rLastRaised,
                   rStartErrors, runs>>
    /\ UNCHANGED <<gvars, ovars>>

\* rate-limit error with retries left: sleep, count, continue
RunRateLimitRetry ==
    /\ rpc = "except"
    /\ IsRateLimitCrew(rErr.msg)
    /\ CrewNotLastRetry(quota_retry_count)
    /\ rLog' = Append(rLog, RunSleep("backoff", CrewWaitTime(quota_retry_count)))
    /\ quota_retry_count' = quota_retry_count + 1
    /\ consecutive_errors' = consecutive_errors + 1
    /\ rErr' = NoExc
    /\ rpc' = "loop"
    /\ UNCHANGED <<rOutcome, rResult, rRaised, rLastRaised, rStartErrors, runs>>
    /\ UNCHANGED <<gvars, ovars>>

\* rate-limit error with no retries left: return the error response
RunRateLimitExhaust ==
    /\ rpc = "except"
    /\ IsRateLimitCrew(rErr.msg)
    /\ ~CrewNotLastRetry(quota_retry_count)
    /\ rOutcome' = "error_response"
    /\ rResult' = create_error_response(TypeRateLimitExceeded)
    /\ rErr' = NoExc
    /\ rpc' = "done"
    /\ UNCHANGED <<quota_retry_count, consecutive_errors, rLog, rRaised,
                   rLastRaised, rStartErrors, runs>>
    /\ UNCHANGED <<gvars, ovars>>

\* variant: the retry of an other error is not counted
RunOtherRetry_NoCount ==
    /\ rpc = "except"
    /\ ~IsRateLimitCrew(rErr.msg)
    /\ OtherRetryAllowed(consecutive_errors)
    /\ rLog' = Append(rLog, RunSleep("errwait",
                                  OtherWaitTime(consecutive_errors + 1)))
    /\ rErr' = NoExc
    /\ rpc' = "loop"
    /\ UNCHANGED <<quota_retry_count, consecutive_errors, rOutcome, rResult,
                   rRaised, rLastRaised, rStartErrors, runs>>
    /\ UNCHANGED <<gvars, ovars>>

\* other error, fewer than 3 consecutive errors: count, sleep, continue
RunOtherRetry ==
    /\ rpc = "except"
    /\ ~IsRateLimitCrew(rErr.msg)
    /\ OtherRetryAllowed(consecutive_errors)
    /\ consecutive_errors' = consecutive_errors + 1
    /\ rLog' = Append(rLog, RunSleep("errwait",
                                  OtherWaitTime(consecutive_errors + 1)))
    /\ rErr' = NoExc
    /\ rpc' = "loop"
    /\ UNCHANGED <<quota_retry_count, rOutcome, rResult, rRaised,
                   rLastRaised, rStartErrors, runs>>
    /\ UNCHANGED <<gvars, ovars>>

\* other error, 3 or more consecutive errors: `raise e`
RunOtherRaise ==
    /\ rpc = "except"
    /\ ~IsRateLimitCrew(rErr.msg)
    /\ ~OtherRetryAllowed(consecutive_errors)
    /\ rOutcome' = "raise"
    /\ rRaised' = rErr
    /\ rErr' = NoExc
    /\ rpc' = "done"
    /\ UNCHANGED <<quota_retry_count, consecutive_errors, rLog, rResult,
                   rLastRaised, rStartErrors, runs>>
    /\ UNCHANGED <<gvars, ovars>>

\* run() has returned or raised; its locals are gone
RunReturn ==
    /\ rpc = "done"
    /\ rpc' = "idle"
    /\ quota_retry_count' = 0
    /\ rErr' = NoExc
    /\ rLog' = <<>>
    /\ rOutcome' = "none"
    /\ rResult' = <<>>
    /\ rRaised' = NoExc
    /\ rLastRaised' = NoExc
    /\ rStartErrors' = 0
    /\ UNCHANGED <<consecutive_errors, runs>>
    /\ UNCHANGED <<gvars, ovars>>

\* ---------------------------------------------------------------------
\* Specification
\* ---------------------------------------------------------------------
\* no get_adaptive_delay call of its own is in progress
AdaptiveRest ==
    /\ dpc = "idle"
    /\ request_delay = REQUEST_DELAY
    /\ error_count = 0
    /\ delay_out = 0

\* no handle_quota_exceeded call is in progress
QuotaRest ==
    /\ hpc = "idle"
    /\ retry_count = 0
    /\ wait_time = <<0, 1>>
    /\ remaining = 0
    /\ hSlept = 0
    /\ hResult = "none"
    /\ hPrev = <<0, <<0, 1>>>>

\* no message is being classified
ClassifyRest ==
    /\ kpc = "idle"
    /\ errMsg = <<>>
    /\ kPhrase = <<>>
    /\ kConfig = FALSE
    /\ kLLM = FALSE
    /\ kCrew = FALSE

\* no event loop is running
LoopRest ==
    /\ apc = "idle"
    /\ aMode = "async"
    /\ aAttempt = 0
    /\ aOutcome = "none"
    /\ loopHolder = "none"
    /\ bpc = "idle"
    /\ bStartAt = <<"idle", 0>>

Threads ==
    {1, 2}

ThreadsRest ==
    /\ tpc = [t \in Threads |-> "idle"]
    /\ tQuota = [t \in Threads |-> 0]
    /\ tLoaded = [t \in Threads |-> 0]
    /\ tCalls = [t \in Threads |-> 0]
    /\ tFails = [t \in Threads |-> 0]
    /\ increments = 0

CliRest ==
    /\ cpc = "idle"
    /\ centry = "none"
    /\ sys_argv = <<>>
    /\ n_iterations = 0
    /\ filename = <<>>
    /\ iteration = 0
    /\ successful_runs = 0
    /\ cOut = "none"
    /\ savedTo = <<>>

StackRest ==
    remoteCalls = 0

\* the parts of the program a specification does not exercise are at rest
RestExcept(part) ==
    /\ IF part = "adaptive" THEN TRUE ELSE AdaptiveRest
    /\ IF part = "quota" THEN TRUE ELSE QuotaRest
    /\ IF part = "classify" THEN TRUE ELSE ClassifyRest
    /\ IF part = "loop" THEN TRUE ELSE LoopRest
    /\ IF part = "threads" THEN TRUE ELSE ThreadsRest
    /\ IF part = "cli" THEN TRUE ELSE CliRest
    /\ IF part = "stack" THEN TRUE ELSE StackRest

MainRest ==
    /\ gpc = "idle"
    /\ gMode = "sync"
    /\ attempt = 0
    /\ gErr = NoExc
    /\ gLog = <<>>
    /\ gOutcome = "none"
    /\ gResult = "-"
    /\ gRaised = NoExc
    /\ gLastRaised = NoExc
    /\ rpc = "idle"
    /\ quota_retry_count = 0
    /\ consecutive_errors = 0
    /\ rErr = NoExc
    /\ rLog = <<>>
    /\ rOutcome = "none"
    /\ rResult = <<>>
    /\ rRaised = NoExc
    /\ rLastRaised = NoExc
    /\ rStartErrors = 0
    /\ runs = 0

Init ==
    /\ MainRest
    /\ RestExcept("main")

Next ==
    \/ \E mode \in {"sync", "async"} : GenCall(mode)
    \/ GenLoop
    \/ \E v \in LLMResults : GenInvokeOk(v)
    \/ \E m \in LLMErrors : GenInvokeFail(m)
    \/ GenRetry
    \/ GenExhaust
    \/ GenReraise
    \/ GenReturn
    \/ RunCall
    \/ RunLoop
    \/ \E v \in KickoffResults : RunKickoffOk(v)
    \/ \E m \in KickoffErrors : RunKickoffFail(m)
    \/ RunRateLimitRetry
    \/ RunRateLimitExhaust
    \/ RunOtherRetry
    \/ RunOtherRaise
    \/ RunReturn

Spec ==
    Init /\ [][Next]_vars

\* ---------------------------------------------------------------------
\* Reading the logs
\* ---------------------------------------------------------------------
IsInvoke(e) ==
    e.ev = "invoke"

IsBackoff(e) ==
    e.ev = "sleep" /\ e.kind = "backoff"

Invokes(log) ==
    SelectSeq(log, IsInvoke)

Backoffs(log) ==
    SelectSeq(log, IsBackoff)

NumInvokes(log) ==
    Len(Invokes(log))

AllInvokesAre(log, k) ==
    \A i \in 1..Len(log) : IsInvoke(log[i]) => log[i].kind = k

InvokeKinds(log) ==
    [i \in 1..NumInvokes(log) |-> Invokes(log)[i].kind]

BackoffSecs(log) ==
    [i \in 1..Len(Backoffs(log)) |-> Backoffs(log)[i].secs]

\* ---------------------------------------------------------------------
\* Properties
\* ---------------------------------------------------------------------

\* C1: when every remote invocation of a _generate call failed with a
\* rate-limit error, the call ended after exactly MAX_QUOTA_RETRIES
\* invocations and MAX_QUOTA_RETRIES - 1 back-off waits, nothing was slept
\* after the last failure, and the exception raised reports that many attempts.
C1_ExhaustAfterN ==
    (gpc = "done" /\ gMode = "sync" /\ AllInvokesAre(gLog, "rl")) =>
        /\ NumInvokes(gLog) = MAX_QUOTA_RETRIES
        /\ Len(Backoffs(gLog)) = MAX_QUOTA_RETRIES - 1
        /\ IsInvoke(gLog[Len(gLog)])
        /\ gOutcome = "raise"
        /\ gRaised.msg = ExhaustPrefix \o IntToStr(NumInvokes(gLog)) \o ExhaustSuffix

C1_Witness ==
    /\ gpc = "done"
    /\ gMode = "sync"
    /\ AllInvokesAre(gLog, "rl")
    /\ NumInvokes(gLog) = MAX_QUOTA_RETRIES
    /\ gOutcome = "raise"

\* C2: a successful remote invocation ends the _generate call: it is the
\* last entry of the log (no sleep, no invocation after it), it is the k-th
\* invocation where k - 1 rate-limit failures came before it, k is at most
\* MAX_QUOTA_RETRIES, and its value is what the wrapper returns.
C2_SuccessOnAttemptK ==
    \A i \in 1..Len(gLog) :
        (gMode = "sync" /\ IsInvoke(gLog[i]) /\ gLog[i].kind = "ok") =>
            /\ i = Len(gLog)
            /\ gpc = "done"
            /\ gOutcome = "return"
            /\ gResult = gLog[i].val
            /\ NumInvokes(gLog) = attempt + 1
            /\ NumInvokes(gLog) <= MAX_QUOTA_RETRIES
            /\ \A j \in 1..(i - 1) : IsInvoke(gLog[j]) => gLog[j].kind = "rl"

C2_Witness ==
    /\ gpc = "done"
    /\ gMode = "sync"
    /\ gOutcome = "return"
    /\ gResult = "r2"
    /\ InvokeKinds(gLog) = <<"rl", "rl", "rl", "ok">>

\* C3: in _generate and _agenerate an invocation that failed with an error
\* matching no rate-limit indicator is the last entry of the log (no wait
\* and no invocation follows), however many rate-limit failures came first,
\* and the exception that leaves the call is that original error.
C3_FatalReraisedAtOnce ==
    \A i \in 1..Len(gLog) :
        (IsInvoke(gLog[i]) /\ gLog[i].kind = "other") =>
            /\ i = Len(gLog)
            /\ gpc \in {"except", "done"}
            /\ gLastRaised.msg \in LLMOtherErrors
            /\ gpc = "except" => gErr = gLastRaised
            /\ gpc = "done" => (gOutcome = "raise" /\ gRaised = gLastRaised)

C3_Witness ==
    /\ gpc = "done"
    /\ gMode = "async"
    /\ gOutcome = "raise"
    /\ gRaised = Exc(MsgInvalidApiKey, <<>>)
    /\ InvokeKinds(gLog) = <<"rl", "rl", "other">>

C5_LinearBackoff ==
    /\ BackoffSecs(gLog) = [j \in 1..Len(Backoffs(gLog)) |-> 60 + 30 * (j - 1)]
    /\ BackoffSecs(rLog) = [j \in 1..Len(Backoffs(rLog)) |-> 60 + 30 * (j - 1)]
    /\ gpc \in {"loop", "invoke"} => Len(Backoffs(gLog)) = NumInvokes(gLog)
    /\ rpc \in {"loop", "kickoff"} =>
            Len(Backoffs(rLog)) =
                Cardinality({i \in 1..Len(rLog) :
                                IsInvoke(rLog[i]) /\ rLog[i].kind = "rl"})
    /\ InvokeKinds(gLog) = <<"rl", "rl", "ok">> =>
            /\ BackoffSecs(gLog) = <<60, 90>>
            /\ gOutcome = "return"
            /\ gResult = gLog[Len(gLog)].val
    /\ InvokeKinds(rLog) = <<"rl", "rl", "ok">> =>
            /\ BackoffSecs(rLog) = <<60, 90>>
            /\ rOutcome = "return"
            /\ rResult = rLog[Len(rLog)].val

C5_Witness ==
    /\ gpc = "done"
    /\ gLastRaised.msg = Msg429RateLimit
    /\ InvokeKinds(gLog) = <<"rl", "rl", "ok">>
    /\ BackoffSecs(gLog) = <<60, 90>>
    /\ gResult = "r1"

\* C6: when every kickoff of a run() call failed with a rate-limit error,
\* kickoff was invoked exactly MAX_QUOTA_RETRIES times, nothing was slept
\* after the last failure, and run() returned (did not raise) the
\* rate_limit_exceeded error response.
C6_RunExhaustReturnsResponse ==
    (rpc = "done" /\ AllInvokesAre(rLog, "rl")) =>
        /\ NumInvokes(rLog) = MAX_QUOTA_RETRIES
        /\ IsInvoke(rLog[Len(rLog)])
        /\ rOutcome = "error_response"
        /\ rResult = RespRateLimitExceeded
        /\ rRaised = NoExc

C6_Witness ==
    /\ rpc = "done"
    /\ AllInvokesAre(rLog, "rl")
    /\ NumInvokes(rLog) = MAX_QUOTA_RETRIES
    /\ rOutcome = "error_response"

\* C7 as stated: one run() call invokes kickoff at most MAX_QUOTA_RETRIES
\* times.
C7_Original ==
    NumInvokes(rLog) <= MAX_QUOTA_RETRIES

\* C7 (amended): one run() call invokes kickoff at most
\* MAX_QUOTA_RETRIES + 3 times, for every sequence of kickoff outcomes and
\* every initial value of consecutive_errors.
C7_AtMostNPlus3 ==
    NumInvokes(rLog) <= MAX_QUOTA_RETRIES + 3

C7_Witness ==
    /\ NumInvokes(rLog) = MAX_QUOTA_RETRIES + 3
    /\ rStartErrors = 0

\* C8: whenever run() has returned a successful kickoff result,
\* consecutive_errors is 0; and no step other than that successful return
\* takes consecutive_errors from a non-zero value to 0.
C8_ResetOnlyOnSuccess ==
    /\ [](rOutcome = "return" => consecutive_errors = 0)
    /\ [][(consecutive_errors # 0 /\ consecutive_errors' = 0) =>
            (rpc = "kickoff" /\ rpc' = "done" /\ rOutcome' = "return")]_vars

C8_Witness ==
    /\ rOutcome = "return"
    /\ consecutive_errors = 0
    /\ rStartErrors > 0
    /\ InvokeKinds(rLog) = <<"rl", "rl", "ok">>

\* C9 as stated: a run() call in which all MAX_QUOTA_RETRIES kickoffs failed
\* with rate-limit errors ends with consecutive_errors raised by
\* MAX_QUOTA_RETRIES.
C9_FinalFailureCounted ==
    (rpc = "done" /\ AllInvokesAre(rLog, "rl")
                  /\ NumInvokes(rLog) = MAX_QUOTA_RETRIES) =>
        consecutive_errors = rStartErrors + MAX_QUOTA_RETRIES

\* C10: the exhaustion exception of _generate/_agenerate has the last
\* error of the remote call as its __context__ and names the number of
\* invocations made in its message.
C10_ExhaustCarriesLastErrorAndCount ==
    (gpc = "done" /\ gOutcome = "raise"
                  /\ gLastRaised.msg \in LLMRateLimitErrors) =>
        /\ gRaised.context = gLastRaised.msg
        /\ gRaised.context # <<>>
        /\ Contains(gRaised.msg, IntToStr(NumInvokes(gLog)))
        /\ NumInvokes(gLog) = MAX_QUOTA_RETRIES

C10_Witness ==
    /\ gpc = "done"
    /\ gMode = "async"
    /\ gOutcome = "raise"
    /\ gRaised.context = MsgQuotaExceeded
    /\ NumInvokes(gLog) = MAX_QUOTA_RETRIES

\* C11: every exception that leaves _generate or _agenerate is either the
\* exhaustion error, after exactly MAX_QUOTA_RETRIES invocations that all
\* failed with rate-limit errors, or the original error of an invocation
\* that failed with an error of another kind; an error of the remote call
\* that is a rate-limit error never leaves the call as it is.
C11_OnlyExhaustOrFatalEscapes ==
    (gpc = "done" /\ gOutcome = "raise") =>
        /\ \/ /\ gRaised.msg = ExhaustMsg(MAX_QUOTA_RETRIES)
              /\ NumInvokes(gLog) = MAX_QUOTA_RETRIES
              /\ AllInvokesAre(gLog, "rl")
           \/ /\ gRaised.msg \in LLMOtherErrors
              /\ gRaised = gLastRaised
              /\ gLog[Len(gLog)] = Invoke("other", "-")
        /\ gRaised.msg \notin LLMRateLimitErrors

C11_Witness ==
    /\ gpc = "done"
    /\ gOutcome = "raise"
    /\ gLastRaised.msg = MsgQuotaExceeded
    /\ gRaised.msg = ExhaustMsg(MAX_QUOTA_RETRIES)

IsPreCallDelay(e) ==
    e.ev = "sleep" /\ e.kind \in {"adaptive", "request"}

IsRetryWait(e) ==
    e.ev = "sleep" /\ e.kind \in {"backoff", "errwait"}

\* consecutive_errors as it was when entry i of rLog was written: the value
\* at the start of the call plus one per retry wait before entry i
ErrorsBefore(i) ==
    rStartErrors + Cardinality({j \in 1..(i - 1) : IsRetryWait(rLog[j])})

\* C12 as stated: the adaptive (or request) delay of run() is slept once
\* per call, before the first kickoff; a retry is preceded by its retry wait
\* only.
C12_Original ==
    \A i \in 1..Len(rLog) : IsPreCallDelay(rLog[i]) => i = 1

\* C12 (amended): in run() the delay derived from consecutive_errors is
\* slept before every kickoff of the call, retries included: each kickoff is
\* directly preceded by a delay of 3, 6, 12, 24, 48 or 96 seconds for a
\* current count of 0, 1, 2, 3, 4 or at least 5, and before every kickoff but
\* the first that delay follows the retry wait.
C12_DelayBeforeEveryKickoff ==
    \A i \in 1..Len(rLog) :
        IsInvoke(rLog[i]) =>
            /\ i > 1
            /\ IsPreCallDelay(rLog[i - 1])
            /\ rLog[i - 1].secs =
                   <<3, 6, 12, 24, 48, 96>>[Min(ErrorsBefore(i - 1), 5) + 1]
            /\ i > 2 => IsRetryWait(rLog[i - 2])

C12_Witness ==
    /\ Len(rLog) >= 5
    /\ rLog[3] = RunSleep("backoff", 60)
    /\ rLog[4] = RunSleep("adaptive", 6)
    /\ IsInvoke(rLog[5])

\* C20: a run() call started with consecutive_errors = 0 in which every
\* kickoff failed with an error matching no rate-limit indicator invoked
\* kickoff exactly 4 times, its retry waits were 20, 40 and 80 seconds, and
\* it raised the error of the 4th failure.
C20_FourAttemptsOnOtherErrors ==
    (rpc = "done" /\ rStartErrors = 0 /\ AllInvokesAre(rLog, "other")) =>
        /\ NumInvokes(rLog) = 4
        /\ [i \in 1..Len(SelectSeq(rLog, IsRetryWait)) |->
                SelectSeq(rLog, IsRetryWait)[i].secs] = <<20, 40, 80>>
        /\ \A i \in 1..Len(rLog) : IsRetryWait(rLog[i]) => rLog[i].kind = "errwait"
        /\ IsInvoke(rLog[Len(rLog)])
        /\ rOutcome = "raise"
        /\ rRaised = rLastRaised
        /\ rRaised.msg \in KickoffOtherErrors
        /\ consecutive_errors = 3

C20_Witness ==
    /\ rpc = "done"
    /\ rStartErrors = 0
    /\ AllInvokesAre(rLog, "other")
    /\ NumInvokes(rLog) = 4
    /\ rRaised = Exc(MsgInvalidApiKey, <<>>)

\* ---------------------------------------------------------------------
\* GeminiConfig.get_adaptive_delay over its inputs (config.py 141-157)
\* ---------------------------------------------------------------------

\* Values of the REQUEST_DELAY environment setting (seconds)
RequestDelays ==
    {1, 2, 3, 5, 10, 30, 60, 100, 150, 299, 300, 301, 400}

\* Largest error_count passed
MaxErrorCount == 8

InitAdaptive ==
    /\ MainRest
    /\ RestExcept("adaptive")
    /\ dpc = "idle"
    /\ request_delay \in RequestDelays
    /\ error_count = 0
    /\ delay_out = 0

\* get_adaptive_delay(n) is called and returns
AdaptiveCall(n) ==
    /\ dpc = "idle"
    /\ error_count' = n
    /\ delay_out' = adaptive_delay_for(request_delay, n)
    /\ dpc' = "returned"
    /\ UNCHANGED request_delay
    /\ UNCHANGED <<gvars, rvars, notAdaptive>>

\* the caller has used the value
AdaptiveReturn ==
    /\ dpc = "returned"
    /\ dpc' = "idle"
    /\ error_count' = 0
    /\ delay_out' = 0
    /\ UNCHANGED request_delay
    /\ UNCHANGED <<gvars, rvars, notAdaptive>>

NextAdaptive ==
    \/ \E n \in 0..MaxErrorCount : AdaptiveCall(n)
    \/ AdaptiveReturn

SpecAdaptive ==
    InitAdaptive /\ [][NextAdaptive]_vars

\* C13 as stated: get_adaptive_delay(n) is
\* min(REQUEST_DELAY * EXPONENTIAL_BACKOFF_BASE^min(n, 5), MAX_BACKOFF_TIME)
\* for every n >= 0 and every positive REQUEST_DELAY, so it never exceeds
\* MAX_BACKOFF_TIME.
C13_AdaptiveDelayFormula ==
    dpc = "returned" =>
        /\ delay_out = Min(request_delay * Pow(2, Min(error_count, 5)), 300)
        /\ delay_out <= 300

\* ---------------------------------------------------------------------
\* GeminiConfig.handle_quota_exceeded (config.py 66-114)
\* Python computes the wait in floating point; here it is an exact
\* rational <<numerator, denominator>> (the float results are the same
\* numbers: 65, 130, 260 and 300.0).
\* ---------------------------------------------------------------------
QUOTA_WAIT_TIME == 65

RatLE(a, b) ==
    a[1] * b[2] <= b[1] * a[2]

RatEq(a, b) ==
    a[1] * b[2] = b[1] * a[2]

RatMin(a, b) ==
    IF RatLE(a, b) THEN a ELSE b

RatMul(a, b) ==
    <<a[1] * b[1], a[2] * b[2]>>

\* int(x) for x >= 0
RatInt(a) ==
    a[1] \div a[2]

\* variant: no cap on the factor or on the wait
quota_wait_time_Uncapped(r) ==
    RatMul(<<QUOTA_WAIT_TIME, 1>>, <<Pow(EXPONENTIAL_BACKOFF_BASE, r), 1>>)

\* wait_time of handle_quota_exceeded (config.py 82-84)
quota_wait_time(r) ==
    RatMin(RatMul(<<QUOTA_WAIT_TIME, 1>>,
                  RatMin(<<Pow(EXPONENTIAL_BACKOFF_BASE, r), 1>>,
                         <<MAX_BACKOFF_TIME, QUOTA_WAIT_TIME>>)),
           <<MAX_BACKOFF_TIME, 1>>)

\* Largest retry_count passed
MaxRetryCount == 11

InitQuota ==
    /\ MainRest
    /\ RestExcept("quota")
    /\ QuotaRest

\* handle_quota_exceeded(r) is entered: refuse, or compute the wait and
\* enter _show_wait_progress
HandleCall(r) ==
    /\ hpc = "idle"
    /\ retry_count' = r
    /\ hSlept' = 0
    /\ IF r >= MAX_QUOTA_RETRIES
       THEN /\ hResult' = "False"
            /\ hpc' = "returned"
            /\ UNCHANGED <<wait_time, remaining>>
       ELSE /\ wait_time' = quota_wait_time(r)
            /\ remaining' = RatInt(quota_wait_time(r))
            /\ hResult' = "none"
            /\ hpc' = "waiting"
    /\ UNCHANGED hPrev
    /\ UNCHANGED <<gvars, rvars, notQuota>>

\* one iteration of the progress loop: time.sleep(1)
HandleTick ==
    /\ hpc = "waiting"
    /\ remaining > 0
    /\ remaining' = remaining - 1
    /\ hSlept' = hSlept + 1
    /\ UNCHANGED <<hpc, retry_count, wait_time, hResult, hPrev>>
    /\ UNCHANGED <<gvars, rvars, notQuota>>

\* the progress loop is over: return True
HandleWaitDone ==
    /\ hpc = "waiting"
    /\ remaining = 0
    /\ hResult' = "True"
    /\ hpc' = "returned"
    /\ UNCHANGED <<retry_count, wait_time, remaining, hSlept, hPrev>>
    /\ UNCHANGED <<gvars, rvars, notQuota>>

\* the caller has the result
HandleReturn ==
    /\ hpc = "returned"
    /\ hpc' = "idle"
    /\ hPrev' = IF hResult = "True" THEN <<retry_count, wait_time>> ELSE hPrev
    /\ retry_count' = 0
    /\ wait_time' = <<0, 1>>
    /\ remaining' = 0
    /\ hSlept' = 0
    /\ hResult' = "none"
    /\ UNCHANGED <<gvars, rvars, notQuota>>

NextQuota ==
    \/ \E r \in 0..MaxRetryCount : HandleCall(r)
    \/ HandleTick
    \/ HandleWaitDone
    \/ HandleReturn

SpecQuota ==
    InitQuota /\ [][NextQuota]_vars

\* C14: for 0 <= r < MAX_QUOTA_RETRIES the wait of
\* handle_quota_exceeded(r) is min(65 * 2^r, 300) seconds, that many seconds
\* have been slept when it returns True, a later call with a retry_count at
\* least as large waits at least as long, and no wait exceeds 300 seconds.
C14_QuotaWaitCappedExponential ==
    (hpc \in {"waiting", "returned"} /\ retry_count < MAX_QUOTA_RETRIES) =>
        /\ RatEq(wait_time, <<Min(65 * Pow(2, retry_count), 300), 1>>)
        /\ RatLE(wait_time, <<300, 1>>)
        /\ hPrev[1] <= retry_count => RatLE(hPrev[2], wait_time)
        /\ hPrev[1] >= retry_count => RatLE(wait_time, hPrev[2]) \/ hPrev[2][1] = 0
        /\ hResult = "True" => hSlept = Min(65 * Pow(2, retry_count), 300)

C14_Witness ==
    /\ hpc = "returned"
    /\ hResult = "True"
    /\ retry_count = 3
    /\ hSlept = 300
    /\ hPrev[1] = 2

\* ---------------------------------------------------------------------
\* The three rate-limit classification sites over messages
\* (config.py 116-139, agents.py 38-46 / 81-89, crew.py 72-84)
\* ---------------------------------------------------------------------
PhraseResourceExhausted ==
    <<"r", "e", "s", "o", "u", "r", "c", "e", " ", "e", "x", "h", "a", "u", "s", "t", "e", "d">>

PrefixError ==
    <<"E", "r", "r", "o", "r", ":", " ">>

SuffixBang ==
    <<"!">>

UpperChar(c) ==
    IF \E i \in 1..26 : LowerAlpha[i] = c
    THEN UpperAlpha[CHOOSE i \in 1..26 : LowerAlpha[i] = c]
    ELSE c

Upper(s) ==
    [i \in 1..Len(s) |-> UpperChar(s[i])]

Capitalize(s) ==
    [i \in 1..Len(s) |-> IF i = 1 THEN UpperChar(s[i]) ELSE s[i]]

\* the indicators named by the data model of the specification
NamedIndicators ==
    {Ind429, IndRateLimit, IndQuota, PhraseResourceExhausted, IndTooManyRequests}

\* phrases a test message is built around
TestPhrases ==
    NamedIndicators \cup quota_indicators
        \cup {IndIterationLimit, IndTimeLimit, MsgInvalidApiKey, <<"c", "o", "n", "n", "e", "c", "t", "i", "o", "n", " ", "r", "e", "s", "e", "t">>}

\* messages containing phrase p in lower, upper or capitalised form
MessagesAround(p) ==
    {pre \o body \o suf :
        pre \in {<<>>, PrefixError, <<"H", "T", "T", "P", " ">>},
        body \in {p, Upper(p), Capitalize(p)},
        suf \in {<<>>, <<" ", "f", "o", "r", " ", "m", "o", "d", "e", "l", " ", "g", "e", "m", "i", "n", "i">>, SuffixBang}}

InitClassify ==
    /\ MainRest
    /\ RestExcept("classify")
    /\ ClassifyRest

\* an exception with message msg reaches the three tests
Classify(p, msg) ==
    /\ kpc = "idle"
    /\ kpc' = "classified"
    /\ kPhrase' = p
    /\ errMsg' = msg
    /\ kConfig' = is_quota_error(msg)
    /\ kLLM' = IsRateLimitLLM(msg)
    /\ kCrew' = IsRateLimitCrew(msg)
    /\ UNCHANGED <<gvars, rvars, notClassify>>

ClassifyReturn ==
    /\ kpc = "classified"
    /\ kpc' = "idle"
    /\ kPhrase' = <<>>
    /\ errMsg' = <<>>
    /\ kConfig' = FALSE
    /\ kLLM' = FALSE
    /\ kCrew' = FALSE
    /\ UNCHANGED <<gvars, rvars, notClassify>>

NextClassify ==
    \/ \E p \in TestPhrases : \E msg \in MessagesAround(p) : Classify(p, msg)
    \/ ClassifyReturn

SpecClassify ==
    InitClassify /\ [][NextClassify]_vars

\* C15 as stated: each of the three sites classifies as a rate-limit error
\* every message containing, in any case, "429", "rate limit", "quota",
\* "resource exhausted" or "too many requests".
C15_Original ==
    (kpc = "classified" /\ kPhrase \in NamedIndicators) =>
        (kConfig /\ kLLM /\ kCrew)

\* C15 (amended): the tests in _generate/_agenerate and in run() classify
\* as a rate-limit error every message containing, in any case, "429",
\* "rate limit", "quota", "resource_exhausted" or "too many requests";
\* is_quota_error does so for "429", "rate limit", "quota exceeded",
\* "quota_exceeded", "resource_exhausted", "resourceexhausted",
\* "too many requests" and "rate_limit_exceeded", but not for "quota" alone;
\* none of the three recognises "resource exhausted" written with a space.
C15_IndicatorsPerSite ==
    kpc = "classified" =>
        /\ kPhrase \in {Ind429, IndRateLimit, IndQuota, IndQuotaExceeded,
                        IndQuotaExceededU, IndResourceExhaustedU,
                        IndTooManyRequests, IndRateLimitExceededU}
                => (kLLM /\ kCrew)
        /\ kPhrase \in {Ind429, IndRateLimit, IndQuotaExceeded,
                        IndQuotaExceededU, IndResourceExhaustedU,
                        IndResourceExhausted, IndTooManyRequests,
                        IndRateLimitExceededU}
                => kConfig
        /\ kPhrase = IndQuota => ~kConfig
        /\ kPhrase = PhraseResourceExhausted => (~kConfig /\ ~kLLM /\ ~kCrew)

C15_Witness ==
    /\ kpc = "classified"
    /\ kPhrase = IndQuota
    /\ errMsg = PrefixError \o Upper(IndQuota) \o SuffixBang
    /\ kLLM
    /\ kCrew
    /\ ~kConfig

\* ---------------------------------------------------------------------
\* The wrapper on an asyncio event loop (agents.py 24-108)
\* A task runs on the loop's single thread from one suspension point to the
\* next.  `await asyncio.sleep(...)` and `await super()._agenerate(...)`
\* suspend the task and free the thread; `time.sleep(...)` and
\* `super()._generate(...)` keep the thread until they return.
\* ---------------------------------------------------------------------

\* variant: _agenerate sleeps with time.sleep
SleepHoldsLoop_Blocking(mode) ==
    TRUE

\* the sleeps of the wrapper: time.sleep in _generate (agents.py 33, 54),
\* await asyncio.sleep in _agenerate (agents.py 76, 97)
SleepHoldsLoop(mode) ==
    mode = "sync"

\* the remote call: super()._generate (agents.py 35) or
\* await super()._agenerate (agents.py 78)
CallHoldsLoop(mode) ==
    mode = "sync"

Holder(task, holds) ==
    IF holds THEN task ELSE "none"

InitLoop ==
    /\ MainRest
    /\ RestExcept("loop")
    /\ LoopRest

\* the wrapper task is scheduled: attempt 0 invokes the remote call
ATaskStart(mode) ==
    /\ apc = "idle"
    /\ loopHolder = "none"
    /\ aMode' = mode
    /\ aAttempt' = 0
    /\ aOutcome' = "none"
    /\ apc' = "awaiting"
    /\ loopHolder' = Holder("A", CallHoldsLoop(mode))
    /\ UNCHANGED <<bpc, bStartAt>>
    /\ UNCHANGED <<gvars, rvars, notLoop>>

\* the remote call returns: the wrapper returns its value
ARemoteOk ==
    /\ apc = "awaiting"
    /\ loopHolder \in {"none", "A"}
    /\ aOutcome' = "return"
    /\ apc' = "done"
    /\ loopHolder' = "none"
    /\ UNCHANGED <<aMode, aAttempt, bpc, bStartAt>>
    /\ UNCHANGED <<gvars, rvars, notLoop>>

\* the remote call raises m: back off, or raise
ARemoteFail(m) ==
    /\ apc = "awaiting"
    /\ loopHolder \in {"none", "A"}
    /\ IF IsRateLimitLLM(m) /\ NotLastAttempt(aAttempt, MAX_QUOTA_RETRIES)
       THEN /\ apc' = "backoff"
            /\ loopHolder' = Holder("A", SleepHoldsLoop(aMode))
            /\ UNCHANGED aOutcome
       ELSE /\ apc' = "done"
            /\ aOutcome' = "raise"
            /\ loopHolder' = "none"
    /\ UNCHANGED <<aMode, aAttempt, bpc, bStartAt>>
    /\ UNCHANGED <<gvars, rvars, notLoop>>

\* the back-off wait is over: next attempt, which starts with the request delay
ABackoffOver ==
    /\ apc = "backoff"
    /\ loopHolder \in {"none", "A"}
    /\ aAttempt' = aAttempt + 1
    /\ apc' = "delay"
    /\ loopHolder' = Holder("A", SleepHoldsLoop(aMode))
    /\ UNCHANGED <<aMode, aOutcome, bpc, bStartAt>>
    /\ UNCHANGED <<gvars, rvars, notLoop>>

\* the request delay is over: invoke the remote call again
ADelayOver ==
    /\ apc = "delay"
    /\ loopHolder \in {"none", "A"}
    /\ apc' = "awaiting"
    /\ loopHolder' = Holder("A", CallHoldsLoop(aMode))
    /\ UNCHANGED <<aMode, aAttempt, aOutcome, bpc, bStartAt>>
    /\ UNCHANGED <<gvars, rvars, notLoop>>

\* the wrapper task is finished
ATaskEnd ==
    /\ apc = "done"
    /\ apc' = "idle"
    /\ aMode' = "async"
    /\ aAttempt' = 0
    /\ aOutcome' = "none"
    /\ UNCHANGED <<loopHolder, bpc, bStartAt>>
    /\ UNCHANGED <<gvars, rvars, notLoop>>

\* the loop schedules the other task, which starts its remote call
BStart ==
    /\ bpc = "idle"
    /\ loopHolder = "none"
    /\ bpc' = "awaiting"
    /\ bStartAt' = <<apc, aAttempt>>
    /\ UNCHANGED <<apc, aMode, aAttempt, aOutcome, loopHolder>>
    /\ UNCHANGED <<gvars, rvars, notLoop>>

\* the loop resumes the other task with the result of its remote call
BComplete ==
    /\ bpc = "awaiting"
    /\ loopHolder = "none"
    /\ bpc' = "done"
    /\ UNCHANGED <<apc, aMode, aAttempt, aOutcome, loopHolder, bStartAt>>
    /\ UNCHANGED <<gvars, rvars, notLoop>>

\* the other task is finished
BEnd ==
    /\ bpc = "done"
    /\ loopHolder = "none"
    /\ bpc' = "idle"
    /\ bStartAt' = <<"idle", 0>>
    /\ UNCHANGED <<apc, aMode, aAttempt, aOutcome, loopHolder>>
    /\ UNCHANGED <<gvars, rvars, notLoop>>

NextLoop ==
    \/ \E mode \in {"sync", "async"} : ATaskStart(mode)
    \/ ARemoteOk
    \/ \E msg \in LLMErrors : ARemoteFail(msg)
    \/ ABackoffOver
    \/ ADelayOver
    \/ ATaskEnd
    \/ BStart
    \/ BComplete
    \/ BEnd

SpecLoop ==
    InitLoop /\ [][NextLoop]_vars

\* C16: while an _agenerate call is in its back-off wait or its request
\* delay, the loop's thread is free: another task that has not started can
\* start its remote call, and one whose remote call is in flight can
\* complete it.
C16_AsyncWaitsYield ==
    (aMode = "async" /\ apc \in {"backoff", "delay"}) =>
        /\ loopHolder = "none"
        /\ bpc = "idle" => ENABLED BStart
        /\ bpc = "awaiting" => ENABLED BComplete

C16_Witness ==
    /\ aMode = "async"
    /\ apc = "backoff"
    /\ aAttempt = 1
    /\ bpc = "done"
    /\ bStartAt = <<"backoff", 1>>

\* ---------------------------------------------------------------------
\* Two threads in GameBuilderCrew.run on the same instance (crew.py 14-116)
\* The instance has no lock.  `self.consecutive_errors += 1` loads the
\* attribute, adds one and stores the result: another thread can run between
\* the load and the store.  quota_retry_count is a local of each call.
\* ---------------------------------------------------------------------

MaxThreadCalls == 1

\* the remote service fails a thread at most this many times
MaxThreadFails == 3

InitThreads ==
    /\ MainRest
    /\ RestExcept("threads")
    /\ ThreadsRest

\* thread t calls run(): quota_retry_count = 0, first pass of the loop
TRunCall(t) ==
    /\ tpc[t] = "idle"
    /\ tCalls[t] < MaxThreadCalls
    /\ tCalls' = [tCalls EXCEPT ![t] = @ + 1]
    /\ tQuota' = [tQuota EXCEPT ![t] = 0]
    /\ tpc' = [tpc EXCEPT ![t] = "kickoff"]
    /\ UNCHANGED <<consecutive_errors, tLoaded, tFails, increments>>
    /\ UNCHANGED <<gvars, rlocals, notThreads>>

\* crew.kickoff() returns in thread t: self.consecutive_errors = 0, return
TKickoffOk(t) ==
    /\ tpc[t] = "kickoff"
    /\ consecutive_errors' = 0
    /\ increments' = 0
    /\ tpc' = [tpc EXCEPT ![t] = "idle"]
    /\ UNCHANGED <<tQuota, tLoaded, tCalls, tFails>>
    /\ UNCHANGED <<gvars, rlocals, notThreads>>

\* crew.kickoff() raises m in thread t: the handler picks its branch
TKickoffFail(t, m) ==
    /\ tpc[t] = "kickoff"
    /\ tFails[t] < MaxThreadFails
    /\ tFails' = [tFails EXCEPT ![t] = @ + 1]
    /\ IF IsRateLimitCrew(m)
       THEN IF CrewNotLastRetry(tQuota[t])
            THEN /\ tQuota' = [tQuota EXCEPT ![t] = @ + 1]
                 /\ tpc' = [tpc EXCEPT ![t] = "load"]
            ELSE /\ tpc' = [tpc EXCEPT ![t] = "idle"]
                 /\ UNCHANGED tQuota
       ELSE IF OtherRetryAllowed(consecutive_errors)
            THEN /\ tpc' = [tpc EXCEPT ![t] = "load"]
                 /\ UNCHANGED tQuota
            ELSE /\ tpc' = [tpc EXCEPT ![t] = "idle"]
                 /\ UNCHANGED tQuota
    /\ UNCHANGED <<consecutive_errors, tLoaded, tCalls, increments>>
    /\ UNCHANGED <<gvars, rlocals, notThreads>>

\* `self.consecutive_errors += 1`, first half: load the attribute
TLoad(t) ==
    /\ tpc[t] = "load"
    /\ tLoaded' = [tLoaded EXCEPT ![t] = consecutive_errors]
    /\ tpc' = [tpc EXCEPT ![t] = "store"]
    /\ UNCHANGED <<consecutive_errors, tQuota, tCalls, tFails, increments>>
    /\ UNCHANGED <<gvars, rlocals, notThreads>>

\* `self.consecutive_errors += 1`, second half: store loaded + 1; then the
\* loop goes round to the next kickoff
TStore(t) ==
    /\ tpc[t] = "store"
    /\ consecutive_errors' = tLoaded[t] + 1
    /\ increments' = increments + 1
    /\ tLoaded' = [tLoaded EXCEPT ![t] = 0]
    /\ tpc' = [tpc EXCEPT ![t] = "kickoff"]
    /\ UNCHANGED <<tQuota, tCalls, tFails>>
    /\ UNCHANGED <<gvars, rlocals, notThreads>>

NextThreads ==
    \/ \E t \in Threads : TRunCall(t)
    \/ \E t \in Threads : TKickoffOk(t)
    \/ \E t \in Threads : \E msg \in KickoffErrors : TKickoffFail(t, msg)
    \/ \E t \in Threads : TLoad(t)
    \/ \E t \in Threads : TStore(t)

SpecThreads ==
    InitThreads /\ [][NextThreads]_vars

\* C17: increments of consecutive_errors by concurrent run() calls are
\* mutually exclusive, so none is lost: the counter equals the number of
\* increments completed since it was last set to 0 (two increments from c
\* give c + 2).
C17_NoLostIncrement ==
    consecutive_errors = increments

\* ---------------------------------------------------------------------
\* Cancellation: KeyboardInterrupt raised in a time.sleep of _generate or
\* of GameBuilderCrew.run
\* ---------------------------------------------------------------------

\* Log entry: a sleep that was cut short by KeyboardInterrupt
GenInterrupted(k) ==
    [ev |-> "interrupt", kind |-> k, secs |-> 0, val |-> "-"]

RunInterrupted(k) ==
    [ev |-> "interrupt", kind |-> k, secs |-> 0, val |-> <<>>]

\* the interrupt arrives in add_request_delay() (agents.py 33), inside the
\* try block
GenDelayInterrupted ==
    /\ gpc = "loop"
    /\ gMode = "sync"
    /\ attempt < MAX_QUOTA_RETRIES
    /\ attempt > 0
    /\ gLog' = Append(gLog, GenInterrupted("request"))
    /\ IF ExceptExceptionCatches("KeyboardInterrupt")
       THEN /\ gErr' = KeyboardInterruptExc(<<>>)
            /\ gpc' = "except"
            /\ UNCHANGED <<gOutcome, gRaised>>
       ELSE /\ gOutcome' = "raise"
            /\ gRaised' = KeyboardInterruptExc(<<>>)
            /\ gpc' = "done"
            /\ UNCHANGED gErr
    /\ UNCHANGED <<gMode, attempt, gResult, gLastRaised>>
    /\ UNCHANGED <<rvars, ovars>>

\* the interrupt arrives in time.sleep(wait_time) (agents.py 54), inside
\* the handler: no enclosing try, it leaves _generate
GenBackoffInterrupted ==
    /\ gpc = "except"
    /\ gMode = "sync"
    /\ IsRateLimitLLM(gErr.msg)
    /\ NotLastAttempt(attempt, MAX_QUOTA_RETRIES)
    /\ gLog' = Append(gLog, GenInterrupted("backoff"))
    /\ gOutcome' = "raise"
    /\ gRaised' = KeyboardInterruptExc(gErr.msg)
    /\ gErr' = NoExc
    /\ gpc' = "done"
    /\ UNCHANGED <<gMode, attempt, gResult, gLastRaised>>
    /\ UNCHANGED <<rvars, ovars>>

\* the interrupt arrives in the delay at the top of the try block
\* (crew.py 34, 36)
RunDelayInterrupted ==
    /\ rpc = "loop"
    /\ quota_retry_count < MAX_QUOTA_RETRIES
    /\ rLog' = Append(rLog, RunInterrupted(
                   IF get_adaptive_delay(consecutive_errors) > REQUEST_DELAY
                   THEN "adaptive" ELSE "request"))
    /\ IF ExceptExceptionCatches("KeyboardInterrupt")
       THEN /\ rErr' = KeyboardInterruptExc(<<>>)
            /\ rpc' = "except"
            /\ UNCHANGED <<rOutcome, rRaised>>
       ELSE /\ rOutcome' = "raise"
            /\ rRaised' = KeyboardInterruptExc(<<>>)
            /\ rpc' = "done"
            /\ UNCHANGED rErr
    /\ UNCHANGED <<quota_retry_count, consecutive_errors, rResult,
                   rLastRaised, rStartErrors, runs>>
    /\ UNCHANGED <<gvars, ovars>>

\* the interrupt arrives in time.sleep(wait_time) of the rate-limit branch
\* (crew.py 93), before the two counters are incremented
RunRateLimitWaitInterrupted ==
    /\ rpc = "except"
    /\ IsRateLimitCrew(rErr.msg)
    /\ CrewNotLastRetry(quota_retry_count)
    /\ rLog' = Append(rLog, RunInterrupted("backoff"))
    /\ rOutcome' = "raise"
    /\ rRaised' = KeyboardInterruptExc(rErr.msg)
    /\ rErr' = NoExc
    /\ rpc' = "done"
    /\ UNCHANGED <<quota_retry_count, consecutive_errors, rResult,
                   rLastRaised, rStartErrors, runs>>
    /\ UNCHANGED <<gvars, ovars>>

\* the interrupt arrives in time.sleep(wait_time) of the other-error branch
\* (crew.py 109), after consecutive_errors was incremented
RunOtherWaitInterrupted ==
    /\ rpc = "except"
    /\ ~IsRateLimitCrew(rErr.msg)
    /\ OtherRetryAllowed(consecutive_errors)
    /\ consecutive_errors' = consecutive_errors + 1
    /\ rLog' = Append(rLog, RunInterrupted("errwait"))
    /\ rOutcome' = "raise"
    /\ rRaised' = KeyboardInterruptExc(rErr.msg)
    /\ rErr' = NoExc
    /\ rpc' = "done"
    /\ UNCHANGED <<quota_retry_count, rResult, rLastRaised, rStartErrors, runs>>
    /\ UNCHANGED <<gvars, ovars>>

NextCancel ==
    \/ Next
    \/ GenDelayInterrupted
    \/ GenBackoffInterrupted
    \/ RunDelayInterrupted
    \/ RunRateLimitWaitInterrupted
    \/ RunOtherWaitInterrupted

SpecCancel ==
    Init /\ [][NextCancel]_vars

\* an interrupted sleep is the last event of the call, which has raised
\* KeyboardInterrupt
CancelPropagated(log, pc, outcome, raised) ==
    \A i \in 1..Len(log) :
        log[i].ev = "interrupt" =>
            /\ i = Len(log)
            /\ pc = "done"
            /\ outcome = "raise"
            /\ raised.cls = "KeyboardInterrupt"

\* C18: a KeyboardInterrupt that arrives while _generate or
\* GameBuilderCrew.run is in one of its waits is not handled by the retry
\* handler: the call raises KeyboardInterrupt to its caller, and the remote
\* call / crew.kickoff is not invoked again in that call.
C18_CancelPropagates ==
    /\ CancelPropagated(gLog, gpc, gOutcome, gRaised)
    /\ CancelPropagated(rLog, rpc, rOutcome, rRaised)

C18_Witness ==
    /\ rpc = "done"
    /\ Len(rLog) = 3
    /\ rLog[2].ev = "invoke"
    /\ rLog[2].kind = "other"
    /\ rLog[3] = RunInterrupted("errwait")
    /\ rRaised = KeyboardInterruptExc(MsgInvalidApiKey)

\* ---------------------------------------------------------------------
\* The command line: the __main__ block and train() (main.py 335-468)
\* ---------------------------------------------------------------------
TokMainPy ==
    <<"m", "a", "i", "n", ".", "p", "y">>

TokTrain ==
    <<"t", "r", "a", "i", "n">>

TokMonitor ==
    <<"m", "o", "n", "i", "t", "o", "r">>

TokHelp ==
    <<"h", "e", "l", "p">>

ArgTokens ==
    {TokTrain, <<"T", "r", "a", "i", "n">>, TokMonitor, TokHelp, <<"2">>, <<"0">>, <<"-", "1">>,
     <<"a", "b", "c">>, <<"o", "u", "t", ".", "j", "s", "o", "n">>}

MaxArgs == 3

\* the argument lists given after the program name
ArgLists ==
    UNION {[1..k -> ArgTokens] : k \in 0..MaxArgs}

\* the answers typed at "Continue with training? (y/N): "
AnsY ==
    <<"y">>

Answers ==
    {AnsY, <<"Y">>, <<"y", " ">>, <<"n">>, <<>>}

\* sys.argv[i]
ArgvAt(argv, i) ==
    argv[i + 1]

IsDigit(c) ==
    \E i \in 1..10 : DigitChars[i] = c

DigitVal(c) ==
    (CHOOSE i \in 1..10 : DigitChars[i] = c) - 1

RECURSIVE DigitsVal(_)
DigitsVal(s) ==
    IF Len(s) = 0 THEN 0
    ELSE 10 * DigitsVal(SubSeq(s, 1, Len(s) - 1)) + DigitVal(s[Len(s)])

IsDigits(s) ==
    /\ Len(s) > 0
    /\ \A i \in 1..Len(s) : IsDigit(s[i])

\* int(s) for a text without white space or underscores: an optional sign
\* and decimal digits; anything else is a ValueError
ParseInt(s) ==
    IF IsDigits(s)
    THEN [ok |-> TRUE, val |-> DigitsVal(s)]
    ELSE IF Len(s) > 1 /\ s[1] \in {"-", "+"} /\ IsDigits(Tail(s))
    THEN [ok |-> TRUE, val |-> IF s[1] = "-" THEN 0 - DigitsVal(Tail(s))
                                             ELSE DigitsVal(Tail(s))]
    ELSE [ok |-> FALSE, val |-> 0]

\* str.strip() of blanks
RECURSIVE Strip(_)
Strip(s) ==
    IF Len(s) > 0 /\ s[1] = " " THEN Strip(Tail(s))
    ELSE IF Len(s) > 0 /\ s[Len(s)] = " " THEN Strip(SubSeq(s, 1, Len(s) - 1))
    ELSE s

InitCli ==
    /\ MainRest
    /\ RestExcept("cli")
    /\ CliRest

\* train() reads sys.argv[1] and sys.argv[2] (main.py 344-345)
TrainArgBase ==
    1

\* train() up to the confirmation prompt (main.py 339-354)
TrainBegin(argv) ==
    IF Len(argv) < 3
    THEN /\ cOut' = "usage"
         /\ cpc' = "done"
         /\ UNCHANGED <<n_iterations, filename>>
    ELSE IF ~ParseInt(ArgvAt(argv, TrainArgBase)).ok
    THEN /\ cOut' = "invalid_iterations"
         /\ cpc' = "done"
         /\ UNCHANGED <<n_iterations, filename>>
    ELSE /\ n_iterations' = ParseInt(ArgvAt(argv, TrainArgBase)).val
         /\ filename' = ArgvAt(argv, TrainArgBase + 1)
         /\ cpc' = "confirm"
         /\ UNCHANGED cOut

\* python main.py args...: the __main__ block (main.py 449-468)
MainStart(args) ==
    /\ cpc = "idle"
    /\ centry' = "main"
    /\ sys_argv' = <<TokMainPy>> \o args
    /\ IF Len(sys_argv') > 1
       THEN IF Lower(ArgvAt(sys_argv', 1)) = TokTrain
            THEN TrainBegin(sys_argv')
            ELSE /\ cOut' = IF Lower(ArgvAt(sys_argv', 1)) = TokMonitor
                            THEN "monitor"
                            ELSE IF Lower(ArgvAt(sys_argv', 1)) = TokHelp
                            THEN "help"
                            ELSE "unknown_command"
                 /\ cpc' = "done"
                 /\ UNCHANGED <<n_iterations, filename>>
       ELSE /\ cOut' = "interactive"
            /\ cpc' = "done"
            /\ UNCHANGED <<n_iterations, filename>>
    /\ UNCHANGED <<iteration, successful_runs, savedTo>>
    /\ UNCHANGED <<gvars, rvars, notCli>>

\* train() called as a function, with sys.argv as its caller left it
TrainStart(args) ==
    /\ cpc = "idle"
    /\ centry' = "train"
    /\ sys_argv' = <<TokMainPy>> \o args
    /\ TrainBegin(sys_argv')
    /\ UNCHANGED <<iteration, successful_runs, savedTo>>
    /\ UNCHANGED <<gvars, rvars, notCli>>

\* the answer to the confirmation prompt (main.py 354-357)
TrainConfirm(answer) ==
    /\ cpc = "confirm"
    /\ IF Strip(Lower(answer)) = AnsY
       THEN /\ cpc' = "api"
            /\ UNCHANGED cOut
       ELSE /\ cOut' = "cancelled"
            /\ cpc' = "done"
    /\ UNCHANGED <<centry, sys_argv, n_iterations, filename, iteration,
                   successful_runs, savedTo>>
    /\ UNCHANGED <<gvars, rvars, notCli>>

\* check_api_status() (main.py 359-361)
TrainApiCheck(ok) ==
    /\ cpc = "api"
    /\ IF ok
       THEN /\ cpc' = "loop"
            /\ UNCHANGED cOut
       ELSE /\ cOut' = "api_failed"
            /\ cpc' = "done"
    /\ UNCHANGED <<centry, sys_argv, n_iterations, filename, iteration,
                   successful_runs, savedTo>>
    /\ UNCHANGED <<gvars, rvars, notCli>>

\* one pass of `for i in range(n_iterations)` (main.py 375-410); how is
\* what run_with_monitoring did: a game, an error response, an exception
TrainIteration(how) ==
    /\ cpc = "loop"
    /\ iteration < n_iterations
    /\ iteration' = iteration + 1
    /\ successful_runs' = IF how = "success" THEN successful_runs + 1
                          ELSE successful_runs
    /\ UNCHANGED <<cpc, centry, sys_argv, n_iterations, filename, cOut, savedTo>>
    /\ UNCHANGED <<gvars, rvars, notCli>>

\* the loop is over: write the results (main.py 412-429); the file is
\* opened before successful_runs / n_iterations is computed
TrainSave ==
    /\ cpc = "loop"
    /\ iteration >= n_iterations
    /\ savedTo' = filename
    /\ cOut' = IF n_iterations = 0 THEN "save_error" ELSE "completed"
    /\ cpc' = "done"
    /\ UNCHANGED <<centry, sys_argv, n_iterations, filename, iteration,
                   successful_runs>>
    /\ UNCHANGED <<gvars, rvars, notCli>>

\* the process ends
CliExit ==
    /\ cpc = "done"
    /\ cpc' = "idle"
    /\ centry' = "none"
    /\ sys_argv' = <<>>
    /\ n_iterations' = 0
    /\ filename' = <<>>
    /\ iteration' = 0
    /\ successful_runs' = 0
    /\ cOut' = "none"
    /\ savedTo' = <<>>
    /\ UNCHANGED <<gvars, rvars, notCli>>

NextCli ==
    \/ \E args \in ArgLists : MainStart(args)
    \/ \E args \in ArgLists : TrainStart(args)
    \/ \E answer \in Answers : TrainConfirm(answer)
    \/ \E ok \in BOOLEAN : TrainApiCheck(ok)
    \/ \E how \in {"success", "failed", "error"} : TrainIteration(how)
    \/ TrainSave
    \/ CliExit

SpecCli ==
    InitCli /\ [][NextCli]_vars

\* C19: python main.py train <n> <file> with <n> a valid integer does not
\* report an invalid iteration count: train() takes <n> as n_iterations and
\* <file> as filename, and asks for confirmation.
C19_TrainUsesItsArguments ==
    (/\ centry = "main"
     /\ Len(sys_argv) = 4
     /\ Lower(ArgvAt(sys_argv, 1)) = TokTrain
     /\ ParseInt(ArgvAt(sys_argv, 2)).ok) =>
        /\ cOut # "invalid_iterations"
        /\ cpc # "done" =>
              /\ n_iterations = ParseInt(ArgvAt(sys_argv, 2)).val
              /\ filename = ArgvAt(sys_argv, 3)

\* ---------------------------------------------------------------------
\* Properties of run() across calls and of the two layers together
\* ---------------------------------------------------------------------

\* number of retry waits (of either kind) of the current run() call
RetriedFailures(log) ==
    Cardinality({i \in 1..Len(log) : IsRetryWait(log[i])})

\* C21: consecutive_errors counts the retried failures of both kinds since
\* the last successful run, across run() calls on the instance; a failure
\* matching no rate-limit indicator is retried exactly when that count is
\* below 3; so in a run() call started with a count of 3 or more the first
\* such failure is raised with no wait and no further kickoff.
C21_SharedCarriedBudget ==
    /\ []((rpc # "idle" /\ rOutcome # "return") =>
            consecutive_errors = rStartErrors + RetriedFailures(rLog))
    /\ [][RunCall => rStartErrors' = consecutive_errors]_vars
    /\ [][(rpc = "except" /\ rLastRaised.msg \in KickoffOtherErrors) =>
            ((rpc' = "loop") <=> (consecutive_errors < 3))]_vars
    /\ [](rStartErrors >= 3 =>
            \A i \in 1..Len(rLog) :
                (IsInvoke(rLog[i]) /\ rLog[i].kind = "other") =>
                    /\ i = Len(rLog)
                    /\ rpc = "done" => (rOutcome = "raise" /\ rRaised = rLastRaised))

C21_Witness ==
    /\ runs = 2
    /\ rStartErrors = MAX_QUOTA_RETRIES - 1
    /\ rpc = "done"
    /\ rOutcome = "raise"
    /\ InvokeKinds(rLog) = <<"other">>
    /\ ~(\E i \in 1..Len(rLog) : IsRetryWait(rLog[i]))

\* one step of run() between its call and its end: the statements of the
\* loop follow each other, every kickoff and every sleep completes
RunStep ==
    \/ RunLoop
    \/ \E v \in KickoffResults : RunKickoffOk(v)
    \/ \E msg \in KickoffErrors : RunKickoffFail(msg)
    \/ RunRateLimitRetry
    \/ RunRateLimitExhaust
    \/ RunOtherRetry
    \/ RunOtherRaise

\* run() keeps running once called; earlier calls may have been interrupted,
\* which leaves consecutive_errors at 1 or 2
SpecRunFair ==
    Init /\ [][NextCancel]_vars /\ WF_vars(RunStep)

\* kickoffs run() can still make: one per rate-limit retry left and one per
\* other-error retry left
KickoffsLeft ==
    (MAX_QUOTA_RETRIES - quota_retry_count)
        + (IF consecutive_errors < 3 THEN 3 - consecutive_errors ELSE 0)

\* C22: run() terminates: once called it returns or raises, whatever the
\* kickoff outcomes and the value of consecutive_errors it starts with; the
\* kickoffs made plus the kickoffs it can still make never exceed
\* MAX_QUOTA_RETRIES + 3.
C22_RunTerminates ==
    /\ (rpc \in {"loop", "kickoff", "except"}) ~> (rpc = "done")
    /\ [](rpc \in {"loop", "kickoff"} =>
            NumInvokes(rLog) + KickoffsLeft <= MAX_QUOTA_RETRIES + 3)
    /\ [](rpc \in {"except", "done"} =>
            NumInvokes(rLog) <= MAX_QUOTA_RETRIES + 3)

C22_Witness ==
    /\ rStartErrors = 1
    /\ rpc = "done"
    /\ rOutcome = "error_response"
    /\ NumInvokes(rLog) = MAX_QUOTA_RETRIES + 2

\* C23: in run() quota_retry_count never exceeds MAX_QUOTA_RETRIES - 1, so
\* the condition of the while loop is true every time it is evaluated, the
\* statement after the loop is never reached and run() never returns the
\* max_retries_exceeded response.
C23_LoopConditionNeverFalse ==
    /\ [](quota_retry_count <= MAX_QUOTA_RETRIES - 1)
    /\ [][rpc = "loop" => rpc' = "kickoff"]_vars
    /\ [](rResult # create_error_response(TypeMaxRetriesExceeded))

C23_Witness ==
    /\ rpc = "loop"
    /\ quota_retry_count = MAX_QUOTA_RETRIES - 1
    /\ Len(Backoffs(rLog)) = MAX_QUOTA_RETRIES - 1

\* ---------------------------------------------------------------------
\* run() on top of the LLM wrapper: crew.kickoff() makes one LLM call through
\* _generate / _agenerate, and what the wrapper returns or raises is what
\* kickoff returns or raises.  The remote of this specification answers or
\* rate-limits.
\* ---------------------------------------------------------------------

\* the crew's output for an LLM answer
CrewOutput(r) ==
    IF r = "r1" THEN ResultGame1 ELSE ResultGame2

InitStack ==
    /\ MainRest
    /\ RestExcept("stack")
    /\ StackRest

\* crew.kickoff() (crew.py 64) reaches the LLM: the wrapper is called
KickoffCallsLLM(mode) ==
    /\ rpc = "kickoff"
    /\ gpc = "idle"
    /\ gpc' = "loop"
    /\ gMode' = mode
    /\ attempt' = 0
    /\ gErr' = NoExc
    /\ gLog' = <<>>
    /\ gOutcome' = "none"
    /\ gResult' = "-"
    /\ gRaised' = NoExc
    /\ gLastRaised' = NoExc
    /\ UNCHANGED <<rvars, ovars>>

\* the wrapper has returned or raised: so does crew.kickoff(), and run()
\* goes on at crew.py 67 or at its except block (crew.py 71)
KickoffReturns ==
    /\ rpc = "kickoff"
    /\ gpc = "done"
    /\ remoteCalls' = remoteCalls + NumInvokes(gLog)
    /\ IF gOutcome = "return"
       THEN /\ rLog' = Append(rLog, Kickoff("ok", CrewOutput(gResult)))
            /\ consecutive_errors' = 0
            /\ rOutcome' = "return"
            /\ rResult' = CrewOutput(gResult)
            /\ rpc' = "done"
            /\ UNCHANGED <<rErr, rLastRaised>>
       ELSE /\ rLog' = Append(rLog, Kickoff(IF gRaised.msg \in KickoffRateLimitErrors
                                             THEN "rl" ELSE "other", <<>>))
            /\ rErr' = gRaised
            /\ rLastRaised' = gRaised
            /\ rpc' = "except"
            /\ UNCHANGED <<consecutive_errors, rOutcome, rResult>>
    /\ gpc' = "idle"
    /\ gMode' = "sync"
    /\ attempt' = 0
    /\ gErr' = NoExc
    /\ gLog' = <<>>
    /\ gOutcome' = "none"
    /\ gResult' = "-"
    /\ gRaised' = NoExc
    /\ gLastRaised' = NoExc
    /\ UNCHANGED <<quota_retry_count, rRaised, rStartErrors, runs>>
    /\ UNCHANGED notStack

NextStack ==
    \/ (RunCall /\ runs = 0)
    \/ RunLoop
    \/ \E mode \in {"sync", "async"} : KickoffCallsLLM(mode)
    \/ GenLoop
    \/ \E v \in LLMResults : GenInvokeOk(v)
    \/ \E msg \in LLMRateLimitErrors : GenInvokeFail(msg)
    \/ GenRetry
    \/ GenExhaust
    \/ KickoffReturns
    \/ RunRateLimitRetry
    \/ RunRateLimitExhaust
    \/ RunReturn

SpecStack ==
    InitStack /\ [][NextStack]_vars

\* remote invocations made so far by the run() call
RemoteInvocations ==
    remoteCalls + NumInvokes(gLog)

\* C24: the exhaustion exception of the LLM wrapper is a rate-limit error
\* for run(): when it comes out of crew.kickoff, run() waits and invokes
\* kickoff again (or returns the rate_limit_exceeded response after its last
\* attempt) and never raises it; one run() call makes at most
\* MAX_QUOTA_RETRIES * MAX_QUOTA_RETRIES remote invocations.
C24_ExhaustionRetriedByCrew ==
    /\ [](rpc = "except" =>
            /\ rErr.msg = ExhaustMsg(MAX_QUOTA_RETRIES)
            /\ IsRateLimitCrew(rErr.msg))
    /\ [][(rpc = "except" /\ rErr.msg = ExhaustMsg(MAX_QUOTA_RETRIES)) =>
            IF quota_retry_count < MAX_QUOTA_RETRIES - 1
            THEN /\ rpc' = "loop"
                 /\ rLog' = Append(rLog, RunSleep("backoff",
                                               60 + 30 * quota_retry_count))
            ELSE /\ rpc' = "done"
                 /\ rOutcome' = "error_response"]_vars
    /\ [](rOutcome # "raise")
    /\ [](RemoteInvocations <= MAX_QUOTA_RETRIES * MAX_QUOTA_RETRIES)

C24_Witness ==
    /\ rpc = "done"
    /\ rOutcome = "error_response"
    /\ rResult = RespRateLimitExceeded
    /\ remoteCalls = MAX_QUOTA_RETRIES * MAX_QUOTA_RETRIES
    /\ NumInvokes(rLog) = MAX_QUOTA_RETRIES

\* C25: an exception that run() raises after a failed kickoff is the error
\* of that kickoff and is not a quota error for GeminiConfig.is_quota_error
\* (the test the callers apply to it); a kickoff error that is_quota_error
\* accepts is followed by a retry or by the rate_limit_exceeded response.
C25_RaisedErrorIsNoQuotaError ==
    /\ [](rOutcome = "raise" =>
            /\ rRaised = rLastRaised
            /\ ~is_quota_error(rRaised.msg))
    /\ [][(rpc = "except" /\ is_quota_error(rErr.msg)) =>
            \/ rpc' = "loop" /\ IsRetryWait(rLog'[Len(rLog')])
            \/ /\ rpc' = "done"
               /\ rOutcome' = "error_response"
               /\ rResult' = create_error_response(TypeRateLimitExceeded)]_vars

C25_Witness ==
    /\ rpc = "done"
    /\ rOutcome = "raise"
    /\ InvokeKinds(rLog) = <<"rl", "rl", "rl", "other">>
    /\ rRaised.msg = MsgInvalidApiKey
    /\ ~is_quota_error(rRaised.msg)

\* the text the callers look for in what run() returned
MarkerGameCreationFailed ==
    <<"#", " ", "G", "a", "m", "e", " ", "C", "r", "e", "a", "t", "i", "o", "n", " ", "F", "a", "i", "l", "e", "d">>

\* main.run goes on to the success banner and the save prompt (main.py 266),
\* train appends a 'success' entry (main.py 380), unless the result is a
\* text containing the marker; every result of the model is a text
CountsAsSuccess(result) ==
    ~Contains(result, MarkerGameCreationFailed)

\* C26: whatever run() returns on a failure path contains the marker
\* '# Game Creation Failed', so its callers do not treat it as a game:
\* main.run does not print the success banner, train does not count the
\* iteration as successful.
C26_FailureResponseHasMarker ==
    rOutcome = "error_response" =>
        /\ Contains(rResult, MarkerGameCreationFailed)
        /\ ~CountsAsSuccess(rResult)

C26_Witness ==
    /\ rpc = "done"
    /\ rOutcome = "error_response"
    /\ NumInvokes(rLog) = MAX_QUOTA_RETRIES + 1
    /\ ~CountsAsSuccess(rResult)

\* the log of a wrapper call that made the invocations inv: before every
\* invocation but the first, the back-off wait and then the request delay
RECURSIVE RefLog(_)
RefLog(inv) ==
    IF Len(inv) <= 1 THEN inv
    ELSE RefLog(SubSeq(inv, 1, Len(inv) - 1))
            \o <<Sleep("backoff", 60 + 30 * (Len(inv) - 2)),
                 Sleep("request", REQUEST_DELAY),
                 inv[Len(inv)]>>

\* C27: _generate and _agenerate are the same retry machine: in either
\* mode, the invocations made, the sequence of sleeps and the outcome of a
\* call are determined by the outcomes of the remote call alone.  The call
\* goes on exactly while the outcomes are rate-limit failures and fewer than
\* MAX_QUOTA_RETRIES; it sleeps the back-off wait and the request delay
\* between invocations; it returns the answer, re-raises the other error, or
\* raises the exhaustion error.
C27_SameMachineInBothModes ==
    /\ gpc \in {"loop", "invoke"} =>
            /\ AllInvokesAre(gLog, "rl")
            /\ NumInvokes(gLog) = attempt
            /\ attempt < MAX_QUOTA_RETRIES
    /\ gpc = "done" =>
            /\ gLog = RefLog(Invokes(gLog))
            /\ NumInvokes(gLog) >= 1
            /\ \A i \in 1..(NumInvokes(gLog) - 1) : Invokes(gLog)[i].kind = "rl"
            /\ gLog[Len(gLog)].kind = "ok" =>
                    (gOutcome = "return" /\ gResult = gLog[Len(gLog)].val)
            /\ gLog[Len(gLog)].kind = "other" =>
                    (gOutcome = "raise" /\ gRaised = gLastRaised)
            /\ gLog[Len(gLog)].kind = "rl" =>
                    /\ NumInvokes(gLog) = MAX_QUOTA_RETRIES
                    /\ gOutcome = "raise"
                    /\ gRaised = Exc(ExhaustMsg(MAX_QUOTA_RETRIES), gLastRaised.msg)

C27_Witness ==
    /\ gpc = "done"
    /\ gMode = "async"
    /\ gOutcome = "return"
    /\ gLog = <<Invoke("rl", "-"), Sleep("backoff", 60), Sleep("request", REQUEST_DELAY),
                Invoke("rl", "-"), Sleep("backoff", 90), Sleep("request", REQUEST_DELAY),
                Invoke("ok", "r1")>>

\* total seconds slept in a stretch of the log
RECURSIVE SleptSecs(_)
SleptSecs(log) ==
    IF Len(log) = 0 THEN 0
    ELSE (IF log[1].ev = "sleep" THEN log[1].secs ELSE 0) + SleptSecs(Tail(log))

\* positions p < q of two consecutive invocations in the log
ConsecutiveInvokes(log, p, q) ==
    /\ p < q
    /\ IsInvoke(log[p])
    /\ IsInvoke(log[q])
    /\ \A j \in (p + 1)..(q - 1) : ~IsInvoke(log[j])

\* C28 as stated: in _generate the sleep between the failed invocation at
\* attempt index i and the next invocation totals 60 + 30*i seconds, and
\* nothing is slept before the first invocation.
C28_Original ==
    gMode = "sync" =>
        /\ gLog # <<>> => IsInvoke(gLog[1])
        /\ \A p, q \in 1..Len(gLog) :
              ConsecutiveInvokes(gLog, p, q) =>
                  SleptSecs(SubSeq(gLog, p + 1, q - 1))
                      = 60 + 30 * NumInvokes(SubSeq(gLog, 1, p - 1))

\* C28 (amended): in _generate the thread sleeps twice between the failed
\* invocation at attempt index i and the next invocation: the back-off wait
\* of 60 + 30*i seconds and then the request delay of REQUEST_DELAY seconds,
\* 63 + 30*i seconds in all with the shipped delay; nothing is slept before
\* the first invocation or after the last one.
C28_BackoffPlusRequestDelay ==
    gMode = "sync" =>
        /\ gLog # <<>> => IsInvoke(gLog[1])
        /\ gpc = "done" => IsInvoke(gLog[Len(gLog)])
        /\ \A p, q \in 1..Len(gLog) :
              ConsecutiveInvokes(gLog, p, q) =>
                  /\ SubSeq(gLog, p + 1, q - 1) =
                        <<Sleep("backoff", 60 + 30 * NumInvokes(SubSeq(gLog, 1, p - 1))),
                          Sleep("request", REQUEST_DELAY)>>
                  /\ SleptSecs(SubSeq(gLog, p + 1, q - 1)) =
                        60 + 30 * NumInvokes(SubSeq(gLog, 1, p - 1)) + REQUEST_DELAY

C28_Witness ==
    /\ gMode = "sync"
    /\ gpc = "done"
    /\ NumInvokes(gLog) = 3
    /\ ConsecutiveInvokes(gLog, 4, 7)
    /\ SleptSecs(SubSeq(gLog, 5, 6)) = 93

\* C29: every back-off wait of _generate / _agenerate and of the rate-limit
\* branch of run() is between 60 and MAX_BACKOFF_TIME = 300 seconds, though
\* neither computation applies that cap: the last wait of a call is the one
\* after the failure at index MAX_QUOTA_RETRIES - 2, 60 + 30 * 8 = 300.
C29_LinearWaitsWithinCap ==
    /\ \A i \in 1..Len(gLog) :
          IsBackoff(gLog[i]) => (60 <= gLog[i].secs /\ gLog[i].secs <= MAX_BACKOFF_TIME)
    /\ \A i \in 1..Len(rLog) :
          IsBackoff(rLog[i]) => (60 <= rLog[i].secs /\ rLog[i].secs <= MAX_BACKOFF_TIME)
    /\ Len(Backoffs(gLog)) <= MAX_QUOTA_RETRIES - 1
    /\ Len(Backoffs(rLog)) <= MAX_QUOTA_RETRIES - 1

C29_Witness ==
    /\ rpc = "done"
    /\ Len(Backoffs(rLog)) = MAX_QUOTA_RETRIES - 1
    /\ Backoffs(rLog)[MAX_QUOTA_RETRIES - 1].secs = MAX_BACKOFF_TIME
    /\ LLMWaitTime(MAX_QUOTA_RETRIES - 2) = MAX_BACKOFF_TIME

\* C30: no step of _generate / _agenerate changes
\* GameBuilderCrew.consecutive_errors, whatever the call's outcome, so the
\* delay get_adaptive_delay(consecutive_errors) used by run() and by the step
\* callback is what it was before the LLM call; a kickoff whose rate-limit
\* failures were all recovered inside the wrapper leaves the count at 0.
C30_WrapperLeavesCrewCounter ==
    /\ [][(gpc # "done" /\ gvars' # gvars) =>
            /\ consecutive_errors' = consecutive_errors
            /\ get_adaptive_delay(consecutive_errors')
                   = get_adaptive_delay(consecutive_errors)]_vars
    /\ [](gpc # "idle" =>
            consecutive_errors = rStartErrors + RetriedFailures(rLog))
    /\ [](rOutcome = "return" =>
            /\ consecutive_errors = 0
            /\ get_adaptive_delay(consecutive_errors) = REQUEST_DELAY)

C30_Witness ==
    /\ rpc = "done"
    /\ rOutcome = "return"
    /\ NumInvokes(rLog) = 1
    /\ remoteCalls = 3
    /\ consecutive_errors = 0
    /\ rLog[1] = RunSleep("request", REQUEST_DELAY)

TypeOK ==
    /\ gpc \in {"idle", "loop", "invoke", "except", "done"}
    /\ rpc \in {"idle", "loop", "kickoff", "except", "done"}
    /\ remoteCalls \in Nat
    /\ attempt \in 0..MAX_QUOTA_RETRIES
    /\ quota_retry_count \in 0..MAX_QUOTA_RETRIES
    /\ consecutive_errors \in Nat
    /\ runs \in 0..MaxRuns
====
